---- MODULE Spec2Model ----
(***************************************************************************)
(* UWB MQTT publisher: the serial framer and TWR parser of                 *)
(* mqtt-live-publisher.py, the network materialiser of                     *)
(* uwb_network_converter.py, the LoRa tag cache of lora_tag_cache.py and   *)
(* the rate-limited publisher of uwb_mqtt_client.py / publish_to_mqtt.     *)
(*                                                                         *)
(* Conventions                                                             *)
(*  - an octet is a number 0..255; a byte string is a sequence of octets;  *)
(*  - a Python value that may be None is <<>> (None) or <<v>> (the value); *)
(*  - wall-clock time is a natural number of seconds (variable now);       *)
(*  - a distance in metres (a float in the code) is carried as the whole   *)
(*    number of micrometres below it, which decides both "< 300 m" and the *)
(*    rounding to millimetres exactly as the float arithmetic does for     *)
(*    every 16-bit TWR value.                                              *)
(***************************************************************************)
EXTENDS Integers, Sequences, FiniteSets, TLC

VARIABLES
    stream,      \* every octet the device sends on the serial line, in order
    arrived,     \* how many of them have reached the port's input buffer
    pieces,      \* in how many pieces they came: 0, 1, or 2 for more than one
    fr,          \* the main loop's state (record, fields named as the globals)
    network,     \* the last document print_list handed to publish_to_mqtt
    now,         \* time.time()
    cache,       \* LoraTagDataCache._cache      (DevEui -> record)
    uwb_cache,   \* LoraTagDataCache._uwb_cache  (NodeId hex -> record)
    keys,        \* the keys of both dictionaries, in the order each iterates them
    sweep,       \* the eviction thread: the sweep it is in, the last one it completed
    lookup,      \* the get_by_uwb_id / get_by_dev_eui call of the last step, if any
    mat,         \* a convert_edges_to_network call in progress
    anchor_map,  \* UwbNetworkConverter.anchor_map (NodeId hex -> [lat, lon, alt])
    args,        \* the command line: --cga-format, --disable-mqtt
    validator,   \* a DataValidator and its last validate_edge_list call
    reset_times,\* when the main loop pulsed DTR (reset): time.time() of each
    command,    \* the command payload the last step handled, with the branch that logged it
    health,     \* the health monitor's metrics and flags, and the status it last reported
    uplink,     \* the uplink the subscriber's last step handled, and when
    recovery,   \* an ErrorRecovery: its counters, its reset record and its last call
    sent,       \* the documents the broker accepted while the last packet was handled
    shutdown,   \* the interrupt handler: how far it has come and what it has done
    lifecycle,  \* the LoraTagDataCache's flags and the threads start() has created
    reader,     \* the dictionaries _on_message created, the one each index entry refers to, the one a reader holds
    callback,   \* the _on_message call in progress: its cached_data, built and not yet stored
    pub          \* the outbound publisher (UwbMqttClient / publish_to_mqtt)

parserVars == <<stream, arrived, pieces, fr, network>>
cacheVars  == <<cache, uwb_cache, keys, sweep, lookup, mat>>
pubVars    == <<pub>>
confVars   == <<anchor_map, args>>
callbackVars == <<callback>>
readerVars == <<reader>>
lifeVars   == <<lifecycle>>
shutdownVars == <<shutdown>>
sentVars   == <<sent>>
recoveryVars == <<recovery>>
uplinkVars == <<uplink>>
healthVars == <<health>>
cmdVars    == <<command>>
resetVars  == <<reset_times>>
valVars    == <<validator>>
vars == <<stream, arrived, pieces, fr, network, now, cache, uwb_cache, keys, sweep, lookup, mat,
          anchor_map, args, validator, reset_times, command, health, uplink, recovery, sent,
          shutdown, lifecycle, reader, callback, pub>>

(***************************************************************************)
(* Bounds of the model                                                     *)
(***************************************************************************)
MaxItems == 3       \* packets / junk octets concatenated into one serial stream
MaxErrRun == 3      \* malformed frames leading a stream fed at arbitrary boundaries
Horizon == 3        \* seconds the clock advances after the process starts
GpsTtl == 1         \* gps_ttl_seconds of the modelled cache instance
SensorTtl == 2      \* sensor_ttl_seconds of the modelled cache instance
MaxRate == 3        \* largest rate limit a command sets
MaxMalformed == 6   \* malformed Distance packets in a row on the serial line
MaxEdges == 2       \* edges in one list handed to the validator
MaxValidated == 3   \* distances a validator has checked before its last call
MaxResets == 7      \* resets recorded by one ErrorRecovery
MaxBackoffClock == 61  \* seconds the clock runs beside an ErrorRecovery
MaxErrCount == 4    \* errors of one class recorded by one ErrorRecovery
MaxMultiplier == 3  \* largest backoff_multiplier an ErrorRecovery is built with
MaxGroup == 2       \* nodes in the first and in the second group of an Assignment
MaxStarts == 2      \* threads of each kind one LoraTagDataCache starts
MaxConversions == 1 \* calls of convert_edges_to_network on one converter
MaxHealthEvents == 4 \* packets and publishes one HealthMonitor records
MaxObjects == 2     \* uplinks one LoraTagDataCache ingests beside a reader
MaxUplinks == 1     \* uplinks that arrive while the converter runs
MaxSweeps == 1      \* eviction sweeps that run while the converter runs

\* time.time() when the process starts: far above any rate limit, and not 0
StartTime == MaxRate + 1
MaxTime == StartTime + Horizon

(***************************************************************************)
(* Program constants                                                       *)
(***************************************************************************)
PACKET_HEADER_BYTE_1 == 220
PACKET_HEADER_BYTE_2 == 172
PACKET_TYPE_ASSIGNMENT == 2
PACKET_TYPE_DISTANCE == 4
MAX_PARSING_ERRORS == 3
MODE_GROUP1_INTERNAL == 1
MODE_GROUP2_INTERNAL == 2
\* MAX_DISTANCE_METERS = 300.0, in millimetres
DEFAULT_MQTT_RATE_LIMIT == 10   \* --mqtt-rate-limit default, seconds
MAX_DISTANCE_METERS == 300000

None == <<>>
Some(v) == <<v>>
\* Python truthiness of an optional number: None and 0 are falsy.
Truthy(x) == x # None /\ x[1] # 0

Min(a, b) == IF a < b THEN a ELSE b
Max(a, b) == IF a > b THEN a ELSE b

(***************************************************************************)
(* Octet helpers: struct.pack / struct.unpack '<H'                         *)
(***************************************************************************)
LE16(n) == <<n % 256, n \div 256>>

U16(b0, b1) == b0 + 256 * b1
\* struct.unpack('<H', payload[idx:idx+2]) with idx counted from 0
U16At(payload, idx) == U16(payload[idx + 1], payload[idx + 2])

RECURSIVE Concat(_)
Concat(ss) == IF ss = <<>> THEN <<>> ELSE Head(ss) \o Concat(Tail(ss))

\* "{:04X}".format(id): the four hex digits, most significant first
Hex4(n) == <<(n \div 4096) % 16, (n \div 256) % 16, (n \div 16) % 16, n % 16>>
\* Python's string order on two such strings ('0'..'9' < 'A'..'F')
HexLess(x, y) ==
    \E i \in 1..4 : x[i] < y[i] /\ \A j \in 1..(i - 1) : x[j] = y[j]

(***************************************************************************)
(* TWR decoding                                                            *)
(***************************************************************************)
\* 0.004690384 * value, as whole micrometres: value * 4690.384 rounded down
Micrometres(value) == value * 4690 + (value * 384) \div 1000

twr_value_ok_no_upper(value) == value > 0

twr_value_ok(value) == value > 0 /\ Micrometres(value) < 300000000

\* round(metres, 3), in millimetres
RoundMm(um) == (um + 500) \div 1000

(***************************************************************************)
(* parse_final: the fixed enumeration of node pairs and the TWR values     *)
(***************************************************************************)
Tab(n, F(_)) == IF n <= 0 THEN <<>> ELSE [i \in 1..n |-> F(i)]

\* for i in range(len(A)): for j in range(len(B))
Cross(A, B) ==
    Tab(Len(A) * Len(B),
        LAMBDA k : <<A[((k - 1) \div Len(B)) + 1], B[((k - 1) % Len(B)) + 1]>>)

\* for i in range(len(A)): for j in range(i+1, len(A))
Upper(A) ==
    LET n == Len(A)
        idx == Tab(n * n, LAMBDA k : <<((k - 1) \div n) + 1, ((k - 1) % n) + 1>>)
        up == SelectSeq(idx, LAMBDA p : p[1] < p[2])
    IN Tab(Len(up), LAMBDA k : <<A[up[k][1]], A[up[k][2]]>>)

ModeBit(mode, bit) == (mode \div bit) % 2 = 1

\* the internal pairs ahead of the pairs between groups
PairListInternalFirst(assignments, mode) ==
    (IF ModeBit(mode, MODE_GROUP1_INTERNAL) THEN Upper(assignments[1]) ELSE <<>>)
    \o (IF ModeBit(mode, MODE_GROUP2_INTERNAL) THEN Upper(assignments[2]) ELSE <<>>)
    \o Cross(assignments[1], assignments[2])
    \o Cross(assignments[1], assignments[3])
    \o Cross(assignments[2], assignments[3])

PairList(assignments, mode) ==
    Cross(assignments[1], assignments[2])
    \o Cross(assignments[1], assignments[3])
    \o Cross(assignments[2], assignments[3])
    \o (IF ModeBit(mode, MODE_GROUP1_INTERNAL) THEN Upper(assignments[1]) ELSE <<>>)
    \o (IF ModeBit(mode, MODE_GROUP2_INTERNAL) THEN Upper(assignments[2]) ELSE <<>>)

\* The result of parse_final: err is TRUE when the except branch was taken
\* (truncated payload, or IndexError on an empty assignments list); results
\* are the edges [a, b, metres].
parse_final(assignments, final_payload, mode) ==
    IF Len(final_payload) = 0 THEN [err |-> FALSE, results |-> <<>>]
    ELSE IF Len(assignments) # 3 THEN [err |-> TRUE, results |-> <<>>]
    ELSE LET pairs == PairList(assignments, mode)
             n == Len(pairs)
             all == Tab(n, LAMBDA k : <<pairs[k][1], pairs[k][2],
                                        U16At(final_payload, 2 * (k - 1))>>)
             kept == SelectSeq(all, LAMBDA e : twr_value_ok(e[3]))
         IN IF Len(final_payload) < 2 * n
            THEN [err |-> TRUE, results |-> <<>>]
            ELSE [err |-> FALSE,
                  results |-> Tab(Len(kept), LAMBDA k :
                      <<kept[k][1], kept[k][2], Micrometres(kept[k][3])>>)]

(***************************************************************************)
(* Error accounting and device reset of the main loop                      *)
(***************************************************************************)
\* the counter without the threshold test
handle_parsing_error_no_threshold(count) ==
    [count |-> count + 1, reset |-> FALSE]

\* handle_parsing_error: the new counter and whether a reset is signalled
handle_parsing_error(count) ==
    [count |-> count + 1, reset |-> count + 1 >= MAX_PARSING_ERRORS]

\* the DTR pulse without the counter
reset_keeping_count(f) == [f EXCEPT !.resets = @ + 1]

\* reset(ser): DTR pulse, counter back to zero
reset(f) == [f EXCEPT !.parsing_error_count = 0, !.resets = @ + 1]

\* the reset path with the Assignment left in place
ResetPathKeepingAssignment(f, avail) ==
    [reset(f) EXCEPT !.pc = "scan", !.pos = avail, !.s = <<>>]

\* reset(ser) from the end of its sleep on; ser.reset_input_buffer(); s = [];
\* assignments = []; continue
\* (avail octets had arrived by then: all of them are discarded unread)
ResetPath(f, avail) ==
    [reset(f) EXCEPT !.pc = "scan", !.pos = avail, !.s = <<>>, !.assignments = <<>>]

\* The except branch of the main loop, also reached from parse_final's own
\* handler (handle_parsing_error, then RESET_REQUIRED when it says so): when
\* a reset is due, reset(ser) raises DTR and sleeps (pc "reset").
OnParsingException(f) ==
    LET h == handle_parsing_error(f.parsing_error_count)
        f1 == [f EXCEPT !.parsing_error_count = h.count, !.last.err = TRUE]
    IN IF h.reset THEN [f1 EXCEPT !.pc = "reset"] ELSE f1

(***************************************************************************)
(* Assignment packet (act_type 2)                                          *)
(***************************************************************************)
AssignmentBranch(f, payload) ==
    LET f1 == [f EXCEPT !.assignments = <<>>]
    IN IF Len(payload) < 9 THEN OnParsingException(f1)
       ELSE
       LET n1 == payload[7]
           n2 == payload[8]
           n3 == payload[9]
           f2 == [f1 EXCEPT !.mode = payload[6], !.g1 = n1, !.g2 = n2, !.g3 = n3]
           room == (Len(payload) - 9) \div 2
           ids(off, n) == Tab(n, LAMBDA i : U16At(payload, 9 + 2 * (off + i - 1)))
       IN IF room < n1 + n2 THEN OnParsingException(f2)
          ELSE
          LET have3 == Min(n3, room - n1 - n2)
              group3 == ids(n1 + n2, have3)
              zeros == Cardinality({i \in 1..have3 : group3[i] = 0})
              f3 == [f2 EXCEPT !.unassigned_count = zeros]
          IN IF have3 < n3 THEN OnParsingException(f3)
             ELSE [f3 EXCEPT !.assignments = <<ids(0, n1), ids(n1, n2), group3>>,
                             !.last.g3_rx = group3]

(***************************************************************************)
(* Distance packet (act_type 4)                                            *)
(***************************************************************************)
\* tof_count without the pairs inside a group
TofCountCrossOnly(f) == f.g1 * f.g2 + f.g1 * f.g3 + f.g2 * f.g3

\* tof_count of the Distance branch, from the counts of the last Assignment header
TofCount(f) ==
    f.g1 * f.g2 + f.g1 * f.g3 + f.g2 * f.g3
    + (IF ModeBit(f.mode, 1) THEN (f.g1 * (f.g1 - 1)) \div 2 ELSE 0)
    + (IF ModeBit(f.mode, 2) THEN (f.g2 * (f.g2 - 1)) \div 2 ELSE 0)

\* assignments[2][g3 - unassigned_count + i] = id, for the first have ids
ResolveSentinels(f, payload, ii, have) ==
    LET G3 == f.assignments[3]
        base == f.g3 - f.unassigned_count
    IN [f EXCEPT !.assignments[3] =
           Tab(Len(G3), LAMBDA j :
               IF j > base /\ j <= base + have
               THEN U16At(payload, ii + 2 * (j - base - 1))
               ELSE G3[j])]

DistanceBranch(f, payload) ==
    LET tof_count == TofCount(f)
        ii == 4 + 2 * tof_count
        uc == f.unassigned_count
        have == IF Len(payload) < ii THEN 0 ELSE Min(uc, (Len(payload) - ii) \div 2)
        valid == Len(f.assignments) = 3
    IN IF uc > 0 /\ ~valid THEN OnParsingException(f)
       ELSE
       LET f1 == IF uc > 0 THEN ResolveSentinels(f, payload, ii, have) ELSE f
           f2 == [f1 EXCEPT !.last.new_ids =
                     Tab(have, LAMBDA i : U16At(payload, ii + 2 * (i - 1)))]
           r == parse_final(f2.assignments, SubSeq(payload, 5, Len(payload)), f2.mode)
       IN IF have < uc THEN OnParsingException(f2)
          ELSE IF r.err THEN OnParsingException(f2)
          ELSE [f2 EXCEPT
                  !.emitted = IF r.results = <<>> THEN @ ELSE Append(@, r.results),
                  !.last.results = r.results,
                  !.last.twrs = IF valid /\ Len(payload) > 4
                                THEN Tab(Len(PairList(f2.assignments, f2.mode)),
                                         LAMBDA k : U16At(payload, 4 + 2 * (k - 1)))
                                ELSE <<>>]

(***************************************************************************)
(* The main loop: one octet at a time, then the whole payload              *)
(***************************************************************************)
NoPacket ==
    [kind |-> 0, err |-> FALSE, results |-> <<>>, twrs |-> <<>>,
     new_ids |-> <<>>, count_before |-> 0, g3_rx |-> <<>>, asg_before |-> <<>>]

InitFr ==
    [pc |-> "scan", l |-> 0, s |-> <<>>, pos |-> 0,
     assignments |-> <<>>, mode |-> 0, g1 |-> 0, g2 |-> 0, g3 |-> 0,
     unassigned_count |-> 0, parsing_error_count |-> 0,
     resets |-> 0, emitted |-> <<>>, last |-> NoPacket]

\* read(ser, l) with the port's default timeout (None): returns once l octets
\* are there.
SerialReadReadyNonBlocking(f, avail) == TRUE

SerialReadReady(f, avail) == avail - f.pos >= f.l

\* cnt = ser.in_waiting; if cnt > 0: ...      /   the blocked read(ser, l)
\* /   the sleep of reset(ser), which ends
CanStep(f, avail) ==
    IF f.pc = "scan" THEN avail > f.pos
    ELSE IF f.pc = "payload" THEN SerialReadReady(f, avail) /\ avail >= f.pos
    ELSE f.pc = "reset"

\* the header test throwing the whole buffer away on a mismatch
ReadByteStepFlush(f, str) ==
    LET s1 == Append(f.s, str[f.pos + 1])
        f1 == [f EXCEPT !.pos = @ + 1]
    IN IF Len(s1) < 4 THEN [f1 EXCEPT !.s = s1]
       ELSE IF s1[1] = PACKET_HEADER_BYTE_1 /\ s1[2] = PACKET_HEADER_BYTE_2
            THEN [f1 EXCEPT !.s = s1, !.pc = "payload", !.l = U16(s1[3], s1[4])]
            ELSE [f1 EXCEPT !.s = <<>>]

\* newS = read(ser, 1); s = s + newS; then the header test of the inner loop
ReadByteStep(f, str) ==
    LET s1 == Append(f.s, str[f.pos + 1])
        f1 == [f EXCEPT !.pos = @ + 1]
    IN IF Len(s1) < 4 THEN [f1 EXCEPT !.s = s1]
       ELSE IF s1[1] = PACKET_HEADER_BYTE_1 /\ s1[2] = PACKET_HEADER_BYTE_2
            THEN [f1 EXCEPT !.s = s1, !.pc = "payload", !.l = U16(s1[3], s1[4])]
            ELSE [f1 EXCEPT !.s = Tail(s1)]

\* payload = read(ser, l); s = []; dispatch on payload[0]
HandlePacket(f, payload) ==
    LET f0 == [f EXCEPT !.s = <<>>, !.pc = "scan",
                        !.last = [NoPacket EXCEPT
                            !.kind = IF Len(payload) >= 1 THEN payload[1] ELSE 0,
                            !.count_before = f.parsing_error_count,
                            !.g3_rx = f.last.g3_rx,
                            !.asg_before = f.assignments]]
    IN IF Len(payload) < 4 THEN OnParsingException(f0)
       ELSE IF payload[1] = PACKET_TYPE_ASSIGNMENT THEN AssignmentBranch(f0, payload)
       ELSE IF payload[1] = PACKET_TYPE_DISTANCE THEN DistanceBranch(f0, payload)
       ELSE f0

ReadPayloadStep(f, str, avail) ==
    LET n == Min(f.l, avail - f.pos)
        payload == SubSeq(str, f.pos + 1, f.pos + n)
    IN HandlePacket([f EXCEPT !.pos = @ + n], payload)

MainLoopStep(f, str, avail) ==
    IF f.pc = "scan" THEN ReadByteStep(f, str)
    ELSE IF f.pc = "payload" THEN ReadPayloadStep(f, str, avail)
    ELSE ResetPath(f, avail)

\* The loop run on a stream that is in the input buffer as one blob.
RECURSIVE RunBlob(_, _)
RunBlob(f, str) ==
    IF CanStep(f, Len(str)) THEN RunBlob(MainLoopStep(f, str, Len(str)), str) ELSE f

(***************************************************************************)
(* LoRa tag cache (lora_tag_cache.py)                                      *)
(***************************************************************************)
\* The three node ids of the reference scenario: B4D3, B98A, B4F1
NodeA == Hex4(46291)
NodeB == Hex4(47498)
NodeC == Hex4(46321)

DevEuis == {"D1", "D2", "D3"}

\* dev_eui_to_uwb_id_map: D1 is the tag B4D3, D2 sits on the anchor B98A,
\* D3 has no UWB id.
DevEuiToUwbId(d) ==
    IF d = "D1" THEN Some(NodeA) ELSE IF d = "D2" THEN Some(NodeB) ELSE None

\* anchor_map as _load_anchor_config leaves it: no anchor file, or a file in
\* which B98A is an anchor at (52, 2, 0)
NoAnchors == [id \in {} |-> <<>>]
AnchorMaps == { NoAnchors, [id \in {NodeB} |-> <<Some(52), Some(2), Some(0)>>] }
AnchorIds == DOMAIN anchor_map
AnchorPosition(id) == anchor_map[id]

\* location_data of a record: {} or the five keys, any of them None
NoLocation == [present |-> FALSE, latitude |-> None, longitude |-> None, altitude |-> None]
Locations ==
    { NoLocation,
      [present |-> TRUE, latitude |-> Some(51), longitude |-> Some(1), altitude |-> Some(50)],
      [present |-> TRUE, latitude |-> Some(0), longitude |-> Some(1), altitude |-> None] }

\* location.get("latitude") and location.get("longitude"), behind data.get("location")
HasGps(data) ==
    data.location.present /\ Truthy(data.location.latitude) /\ Truthy(data.location.longitude)

\* _is_data_valid at clock reading t
is_data_valid_ignoring_gps(data, max_age_seconds, check_gps_staleness, t) ==
    (t - data.timestamp) <= (IF max_age_seconds # None THEN max_age_seconds[1] ELSE SensorTtl)

is_data_valid(data, max_age_seconds, check_gps_staleness, t) ==
    LET data_age == t - data.timestamp
        gps_max_age == IF max_age_seconds # None THEN max_age_seconds[1] ELSE GpsTtl
        sensor_max_age == IF max_age_seconds # None THEN max_age_seconds[1] ELSE SensorTtl
    IN IF check_gps_staleness /\ HasGps(data) /\ data_age > gps_max_age
       THEN FALSE
       ELSE data_age <= sensor_max_age

\* get_by_uwb_id on the NodeId index k at clock reading t: None or the record
get_by_uwb_id(k, uwb_id, max_age_seconds, check_gps_staleness, t) ==
    IF uwb_id \notin DOMAIN k THEN None
    ELSE IF ~is_data_valid(k[uwb_id], max_age_seconds, check_gps_staleness, t) THEN None
    ELSE Some(k[uwb_id])

\* get_by_dev_eui: whatever is stored
get_by_dev_eui(c, dev_eui) == IF dev_eui \in DOMAIN c THEN Some(c[dev_eui]) ELSE None

Put(f, key, val) == [x \in DOMAIN f \cup {key} |-> IF x = key THEN val ELSE f[x]]
Drop(f, gone) == [x \in DOMAIN f \ gone |-> f[x]]

\* _on_message, the part under the lock: both indices get the same record
StoreUwb(k, data) ==
    LET uwb_id == DevEuiToUwbId(data.dev_eui)
    IN IF uwb_id # None THEN Put(k, uwb_id[1], data) ELSE k

\* An uplink as json.loads leaves it.  dev_eui is None when end_device_ids or
\* its dev_eui is missing, null or empty.  uplink_message, decoded_payload,
\* locations and rx_metadata are "absent", "null" or "object"; loc is the
\* location found in locations, each of its keys None when missing.
GoodUplink(d) ==
    [dev_eui |-> d, uplink_message |-> "object", decoded_payload |-> "object",
     locations |-> "object", rx_metadata |-> "object",
     loc |-> [empty |-> FALSE, latitude |-> Some(51), longitude |-> Some(1),
              altitude |-> Some(50), accuracy |-> Some(5)]]

UplinksOf(d) ==
    LET g == GoodUplink(d)
    IN { g,
         [g EXCEPT !.uplink_message = "absent"],
         [g EXCEPT !.uplink_message = "null"],
         [g EXCEPT !.decoded_payload = "absent"],
         [g EXCEPT !.decoded_payload = "null"],
         [g EXCEPT !.locations = "absent"],
         [g EXCEPT !.locations = "null"],
         [g EXCEPT !.loc.empty = TRUE, !.loc.latitude = None, !.loc.longitude = None,
                   !.loc.altitude = None, !.loc.accuracy = None],
         [g EXCEPT !.loc.latitude = None],
         [g EXCEPT !.loc.longitude = None],
         [g EXCEPT !.loc.altitude = None, !.loc.accuracy = None],
         [g EXCEPT !.rx_metadata = "absent"],
         [g EXCEPT !.rx_metadata = "null"] }

\* uplink_msg = data.get("uplink_message", {})
UplinkObject(msg, key) ==
    IF msg.uplink_message = "absent" THEN "absent" ELSE msg[key]

\* the location block: location_data, or the exception that leaves the block
\* ("caught" by its own except, "raised" past it)
ExtractLocation(msg) ==
    LET locations == UplinkObject(msg, "locations")
        Got(x, l) == [exception |-> x, location |-> l]
    IN IF msg.uplink_message = "null" THEN Got("caught", NoLocation)
       ELSE IF locations = "absent" THEN Got("none", NoLocation)
       ELSE IF locations = "null" THEN Got("raised", NoLocation)
       ELSE IF msg.loc.empty THEN Got("none", NoLocation)
       ELSE IF msg.loc.latitude = None \/ msg.loc.longitude = None
       THEN Got("raised", NoLocation)
       ELSE Got("none", [present |-> TRUE, latitude |-> msg.loc.latitude,
                         longitude |-> msg.loc.longitude,
                         altitude |-> msg.loc.altitude])

\* _on_message up to cached_data: the record, or None when the callback
\* returns early or an exception reaches its outer handler
Extract(msg, t) ==
    IF msg.dev_eui = None THEN None
    ELSE IF ExtractLocation(msg).exception = "raised" THEN None
    ELSE IF msg.uplink_message = "null" THEN None
    ELSE IF UplinkObject(msg, "rx_metadata") = "null" THEN None
    ELSE Some([dev_eui |-> msg.dev_eui[1], timestamp |-> t,
               location |-> ExtractLocation(msg).location])

\* The keys of a dictionary as it iterates them: a key stored anew goes to
\* the end, a key stored again stays where it is.
Members(s) == {s[i] : i \in 1..Len(s)}
KeyStored(ks, key) == IF key \in Members(ks) THEN ks ELSE Append(ks, key)
KeysLeft(ks, f) == SelectSeq(ks, LAMBDA k : k \in DOMAIN f)

\* the keys after _on_message has stored cached_data
StoreKeys(ks, data) ==
    LET uwb_id == DevEuiToUwbId(data.dev_eui)
    IN [cache |-> KeyStored(ks.cache, data.dev_eui),
        uwb_cache |-> IF uwb_id # None THEN KeyStored(ks.uwb_cache, uwb_id[1])
                      ELSE ks.uwb_cache]

\* _cleanup_expired_entries: `if not self._is_data_valid(data,
\* check_gps_staleness=True)` on one entry, the clock reading t
ExpiredGpsOnly(data, t) == HasGps(data) /\ t - data.timestamp > GpsTtl

Expired(data, t) == ~is_data_valid(data, None, TRUE, t)

\* list(self._cache.items()), then list(self._uwb_cache.items())
SweepList(ks) ==
    Tab(Len(ks.cache), LAMBDA i : [index |-> "cache", key |-> ks.cache[i]])
    \o Tab(Len(ks.uwb_cache), LAMBDA i : [index |-> "uwb_cache", key |-> ks.uwb_cache[i]])

\* for uwb_id in expired_uwb_ids: del self._uwb_cache[uwb_id]
SweepUwbKeepsAll(k, expired_uwb_ids) == k

SweepUwb(k, expired_uwb_ids) == Drop(k, Members(expired_uwb_ids))

(***************************************************************************)
(* Network materialiser (uwb_network_converter.py)                         *)
(***************************************************************************)
RECURSIVE SortIds(_)
\* sorted(uwb_ids)
SortIds(S) ==
    IF S = {} THEN <<>>
    ELSE LET m == CHOOSE x \in S : \A y \in S : y = x \/ HexLess(x, y)
         IN <<m>> \o SortIds(S \ {m})

EdgeIds(edge_list) ==
    {edge_list[i][1] : i \in 1..Len(edge_list)} \cup {edge_list[i][2] : i \in 1..Len(edge_list)}

\* One pass of the loop over sorted_ids: the node document, and the value the
\* local variable timestamp has afterwards (it is carried to the next node).
\* k is the NodeId index, t the clock at the lookup.
ResolveNode(uwb_id, timestamp, k, t) ==
    LET is_anchor == uwb_id \in AnchorIds
        lora_data == IF is_anchor
                     THEN get_by_uwb_id(k, uwb_id, None, TRUE, t)
                     ELSE get_by_uwb_id(k, uwb_id, None, TRUE, t)
        from_lora == ~is_anchor /\ lora_data # None /\ HasGps(lora_data[1])
        loc == lora_data[1].location
        ts == IF from_lora /\ lora_data[1].timestamp # 0
              THEN lora_data[1].timestamp ELSE timestamp
    IN [timestamp |-> ts,
        uwb |-> [id |-> uwb_id,
                 latLonAlt |-> IF is_anchor THEN AnchorPosition(uwb_id)
                               ELSE IF from_lora
                               THEN <<loc.latitude, loc.longitude, loc.altitude>>
                               ELSE <<Some(0), Some(0), Some(0)>>,
                 positionKnown |-> is_anchor \/ from_lora,
                 lastPositionUpdateTime |-> ts,
                 loraDataTimestamp |-> IF lora_data # None /\ lora_data[1].timestamp # 0
                                       THEN Some(lora_data[1].timestamp) ELSE None,
                 lookupTime |-> t,
                 lora_data |-> lora_data,
                 edges |-> <<>>]]

\* uwb_map[end0]["edges"].append(edge_obj); uwb_map[end1]["edges"].append(edge_obj)
EdgesOfEnd0Only(uwb_id, edge_list) ==
    SelectSeq(edge_list, LAMBDA e : e[1] = uwb_id)

EdgesOf(uwb_id, edge_list) ==
    Concat(Tab(Len(edge_list), LAMBDA i :
        (IF edge_list[i][1] = uwb_id THEN <<edge_list[i]>> ELSE <<>>)
        \o (IF edge_list[i][2] = uwb_id THEN <<edge_list[i]>> ELSE <<>>)))

AttachEdges(uwbs, edge_list) ==
    Tab(Len(uwbs), LAMBDA i : [uwbs[i] EXCEPT !.edges = EdgesOf(uwbs[i].id, edge_list)])

RECURSIVE ResolveAll(_, _, _, _)
\* the loop over sorted_ids run without another thread in between
ResolveAll(ids, timestamp, k, t) ==
    IF ids = <<>> THEN <<>>
    ELSE LET r == ResolveNode(Head(ids), timestamp, k, t)
         IN <<r.uwb>> \o ResolveAll(Tail(ids), r.timestamp, k, t)

convert_edges_to_network(edge_list, timestamp, k, t) ==
    [uwbs |-> AttachEdges(ResolveAll(SortIds(EdgeIds(edge_list)), timestamp, k, t), edge_list)]

\* print_list: formatted_data, one entry per edge
FormatEdges(results) ==
    Tab(Len(results), LAMBDA i :
        <<Hex4(results[i][1]), Hex4(results[i][2]), RoundMm(results[i][3])>>)

(***************************************************************************)
(* Data validator (uwb_data_validator.py); distances in millimetres        *)
(***************************************************************************)
\* ValidationResult; the reason text names what was violated, the bound and
\* the two nodes
ValidationResult(is_valid, reason) == [is_valid |-> is_valid, reason |-> reason]

validate_distance_no_maximum(distance, node1, node2, v) ==
    IF distance < v.min_distance_meters
    THEN ValidationResult(FALSE, Some([text |-> "below minimum",
                                       bound |-> v.min_distance_meters,
                                       nodes |-> <<node1, node2>>]))
    ELSE ValidationResult(TRUE, None)

\* validate_distance of the validator v (the statistics are counted by
\* validate_edge_list below)
validate_distance(distance, node1, node2, v) ==
    IF distance < v.min_distance_meters
    THEN ValidationResult(FALSE, Some([text |-> "below minimum",
                                       bound |-> v.min_distance_meters,
                                       nodes |-> <<node1, node2>>]))
    ELSE IF distance > v.max_distance_meters
    THEN ValidationResult(FALSE, Some([text |-> "exceeds maximum",
                                       bound |-> v.max_distance_meters,
                                       nodes |-> <<node1, node2>>]))
    ELSE ValidationResult(TRUE, None)

RECURSIVE validate_edge_list(_, _)
\* validate_edge_list: the validator after the loop over edge_list, with the
\* two lists it returns and its validation_stats
validate_edge_list(edge_list, v) ==
    IF edge_list = <<>> THEN v
    ELSE LET edge == Head(edge_list)
             result == validate_distance(edge[3], edge[1], edge[2], v)
             w == IF Len(edge) < 3
                  THEN [v EXCEPT !.validation_failures =
                          Append(@, [type |-> "invalid_format", edge |-> edge,
                                     reason |-> Some([text |-> "at least 3 elements",
                                                      bound |-> 3, nodes |-> <<>>])])]
                  ELSE IF result.is_valid
                  THEN [v EXCEPT !.valid_edges = Append(@, edge),
                                 !.total_validated = @ + 1]
                  ELSE [v EXCEPT !.validation_failures =
                          Append(@, [type |-> "distance_validation", edge |-> edge,
                                     reason |-> result.reason,
                                     node1 |-> edge[1], node2 |-> edge[2],
                                     distance |-> edge[3]]),
                                 !.total_validated = @ + 1,
                                 !.distance_rejected = @ + 1]
         IN validate_edge_list(Tail(edge_list), w)

\* DataValidator.__init__: the bounds, and the statistics at zero
NewValidator(min_distance_meters, max_distance_meters) ==
    [min_distance_meters |-> min_distance_meters,
     max_distance_meters |-> max_distance_meters,
     edge_list |-> <<>>, valid_edges |-> <<>>, validation_failures |-> <<>>,
     total_validated |-> 0, distance_rejected |-> 0, calls |-> 0]

DefaultValidator == NewValidator(0, MAX_DISTANCE_METERS)

\* the default bounds, a lower maximum, and a minimum above zero
Validators ==
    { DefaultValidator, NewValidator(0, 200000), NewValidator(1000, MAX_DISTANCE_METERS) }

\* edges handed to the validator: 5 m, the distance of TWR 53300 (249.997 m,
\* the value nearest to 250 m), 300 m, 300.001 m, 0 m, a negative distance,
\* and an edge without a distance
ValEdges ==
    { <<NodeA, NodeB, 5000>>,
      <<NodeA, NodeC, RoundMm(Micrometres(53300))>>,
      <<NodeB, NodeC, 300000>>,
      <<NodeB, NodeC, 300001>>,
      <<NodeA, NodeB, 0>>,
      <<NodeA, NodeC, 0 - 1>>,
      <<NodeA, NodeB>> }

ValEdgeLists == UNION {[1..n -> ValEdges] : n \in 1..MaxEdges}

(***************************************************************************)
(* Serial streams the device may send                                      *)
(***************************************************************************)
\* What the main loop reads from the serial line: 0xDC 0xAC, the length as '<H',
\* then the payload.  An Assignment payload is act_type 2, act_slot, timeframe,
\* tx_pwr, mode, g1, g2, g3 and the ids; a Distance payload is act_type 4,
\* act_slot, timeframe, the tof values and the ids of the newly assigned nodes.
Ids16(ids) == Concat(Tab(Len(ids), LAMBDA i : LE16(ids[i])))
Frame(payload) ==
    <<PACKET_HEADER_BYTE_1, PACKET_HEADER_BYTE_2>> \o LE16(Len(payload)) \o payload
AssignmentFrame(mode, G1, G2, G3) ==
    Frame(<<PACKET_TYPE_ASSIGNMENT, 0, 0, 0, 0, mode, Len(G1), Len(G2), Len(G3)>>
          \o Ids16(G1 \o G2 \o G3))
DistanceFrame(twrs, ids) ==
    Frame(<<PACKET_TYPE_DISTANCE, 0, 0, 0>> \o Ids16(twrs) \o Ids16(ids))

\* the final packet test/generate_test_packets.py builds: the preamble, the
\* five octets and the ids of an Assignment again, and then the distances
\* (distances[:tof_count]: the distances beyond the count the groups and the
\* mode give are left out)
FinalPacketOfGenerator(mode, G1, G2, G3, distances) ==
    LET tof_count == TofCount([g1 |-> Len(G1), g2 |-> Len(G2), g3 |-> Len(G3),
                               mode |-> mode])
    IN Frame(<<PACKET_TYPE_DISTANCE, 0, 0, 0, 0, mode, Len(G1), Len(G2), Len(G3)>>
             \o Ids16(G1 \o G2 \o G3)
             \o Ids16(SubSeq(distances, 1, Min(Len(distances), tof_count))))

\* an empty payload: "Payload too short"
ShortFrame == Frame(<<>>)

ParseItems ==
    { <<7>>,
      AssignmentFrame(0, <<46291>>, <<47498>>, <<46321>>),
      AssignmentFrame(0, <<46291>>, <<47498>>, <<46321, 0>>),
      AssignmentFrame(0, <<46291>>, <<47498>>, <<0, 46321>>),
      AssignmentFrame(3, <<46291, 46500>>, <<47498>>, <<>>),
      Frame(<<PACKET_TYPE_ASSIGNMENT, 0, 0, 0, 0, 0, 1, 1, 1>> \o LE16(46291)),
      DistanceFrame(<<1066, 1066, 1066>>, <<>>),
      DistanceFrame(<<0, 1, 63960>>, <<>>),
      DistanceFrame(<<63961, 65535, 1066>>, <<>>),
      DistanceFrame(<<11, 12, 13, 14, 15>>, <<46458>>),
      DistanceFrame(<<1066>>, <<>>),
      FinalPacketOfGenerator(0, <<46291>>, <<47498>>, <<46321>>, <<1066, 1066, 1066>>),
      Frame(<<9, 0, 0, 0>>),
      ShortFrame }

ParseStreams ==
    {Concat(q) : q \in UNION {[1..n -> ParseItems] : n \in 0..MaxItems}}

\* junk, then a run of malformed frames, then an assignment, then a distance
FrameStreams ==
    { j \o Concat(Tab(e, LAMBDA i : ShortFrame)) \o a \o d :
        j \in {<<>>, <<7>>, <<PACKET_HEADER_BYTE_1>>},
        e \in 0..MaxErrRun,
        a \in {<<>>, AssignmentFrame(0, <<46291>>, <<47498>>, <<>>), Frame(<<9, 0, 0, 0>>)},
        d \in {<<>>, DistanceFrame(<<1066>>, <<>>), DistanceFrame(<<>>, <<>>)} }

\* a Distance packet cut short inside its first TWR value
MalformedDistance == Frame(<<PACKET_TYPE_DISTANCE, 0, 0, 0, 42>>)

\* with or without an Assignment first, a run of malformed Distance packets
RecoverStreams ==
    { a \o Concat(Tab(n, LAMBDA i : MalformedDistance)) :
        a \in {<<>>, AssignmentFrame(0, <<46291>>, <<47498>>, <<46321>>)},
        n \in 0..MaxMalformed }

(***************************************************************************)
(* Error recovery (uwb_error_recovery.py)                                  *)
(***************************************************************************)
initial_backoff_seconds == 1     \* ErrorRecovery's defaults
max_backoff_seconds == 60
backoff_multiplier == 2
connection_error_threshold == 3

ErrorTypes == {"parsing", "connection", "serial", "mqtt"}

RECURSIVE Power(_, _)
Power(b, e) == IF e = 0 THEN 1 ELSE b * Power(b, e - 1)

NoOp == [op |-> "none", error_type |-> "none", result |-> FALSE]

\* ErrorRecovery(logger, parsing_error_threshold, connection_error_threshold),
\* the backoff parameters at their defaults
NewErrorRecovery(parsing_threshold, connection_threshold) ==
    [parsing_error_threshold |-> parsing_threshold,
     connection_error_threshold |-> connection_threshold,
     backoff_multiplier |-> backoff_multiplier,
     error_counts |-> [t \in ErrorTypes |-> 0],
     reset_count |-> 0, last_reset_time |-> None,
     current_backoff_seconds |-> initial_backoff_seconds,
     last |-> NoOp]

\* threshold = parsing_error_threshold if error_type == PARSING
\*             else connection_error_threshold
ThresholdPerClassOnly(r, error_type) ==
    IF error_type = "parsing" THEN r.parsing_error_threshold
    ELSE IF error_type = "connection" THEN r.connection_error_threshold
    ELSE r.connection_error_threshold + 1

Threshold(r, error_type) ==
    IF error_type = "parsing" THEN r.parsing_error_threshold
    ELSE r.connection_error_threshold

\* record_error: the recovery it leaves, its return value in last.result
record_error(r, error_type) ==
    LET counts == [r.error_counts EXCEPT ![error_type] = @ + 1]
    IN [r EXCEPT !.error_counts = counts,
                 !.last = [op |-> "record_error", error_type |-> error_type,
                           result |-> counts[error_type] >= Threshold(r, error_type)]]

\* min(initial_backoff_seconds * backoff_multiplier ** reset_count, max_backoff_seconds)
backoff_delay_unclamped(multiplier, reset_count) ==
    initial_backoff_seconds * Power(multiplier, reset_count)

backoff_delay(multiplier, reset_count) ==
    Min(initial_backoff_seconds * Power(multiplier, reset_count),
        max_backoff_seconds)

\* should_reset_with_backoff at clock reading t
should_reset_with_backoff(r, t) ==
    IF r.last_reset_time = None THEN TRUE
    ELSE ~(t - r.last_reset_time[1] < backoff_delay(r.backoff_multiplier, r.reset_count))

\* reset_error_counts(error_type); error_type None resets every class
reset_error_counts(r, error_type) ==
    [r EXCEPT !.error_counts =
                 IF error_type # "none" THEN [@ EXCEPT ![error_type] = 0]
                 ELSE [t \in ErrorTypes |-> 0],
              !.last = [op |-> "reset_error_counts", error_type |-> error_type,
                        result |-> FALSE]]

\* record_reset that computes the backoff before it counts the reset
record_reset_backoff_first(r, t) ==
    [r EXCEPT !.reset_count = @ + 1,
              !.last_reset_time = Some(t),
              !.current_backoff_seconds = backoff_delay(r.backoff_multiplier, r.reset_count),
              !.last = [op |-> "record_reset", error_type |-> "none", result |-> FALSE]]

\* get_stats: the fields it reports
get_stats(r) ==
    [error_counts |-> r.error_counts, reset_count |-> r.reset_count,
     last_reset_time |-> r.last_reset_time,
     current_backoff_seconds |-> r.current_backoff_seconds,
     thresholds |-> [parsing |-> r.parsing_error_threshold,
                     connection |-> r.connection_error_threshold]]

\* record_reset at clock reading t
record_reset(r, t) ==
    [r EXCEPT !.reset_count = @ + 1,
              !.last_reset_time = Some(t),
              !.current_backoff_seconds = backoff_delay(r.backoff_multiplier, r.reset_count + 1),
              !.last = [op |-> "record_reset", error_type |-> "none", result |-> FALSE]]

\* thresholds an ErrorRecovery is constructed with
ErrorThresholds == {MAX_PARSING_ERRORS - 1, MAX_PARSING_ERRORS}

(***************************************************************************)
(* Health monitor (uwb_health_monitor.py)                                  *)
(***************************************************************************)
STARTUP_PERIOD == 30                     \* startup_period
UWB_DATA_TIMEOUT_SECONDS == 300          \* uwb_data_timeout_seconds default
MQTT_CONNECTION_TIMEOUT_SECONDS == 60    \* mqtt_connection_timeout_seconds default
CONSECUTIVE_ERRORS_UNHEALTHY == 5
PARSING_ERRORS_UNHEALTHY == 10

\* HealthMonitor(...) constructed at start_time; mqtt_now is what
\* mqtt_client.client.is_connected() answers
NewHealthMonitor(start_time) ==
    [start_time |-> start_time, parsing_errors |-> 0, successful_packets |-> 0,
     failed_packets |-> 0, last_uwb_data_time |-> None,
     last_mqtt_connected_time |-> None, consecutive_errors |-> 0,
     serial_connected |-> FALSE, mqtt_now |-> FALSE,
     mqtt_publishes |-> 0, mqtt_failures |-> 0,
     status |-> "none", calls |-> 0]

\* success_rate < 0.8, success_rate = successful / total, or 1.0 with no packet
SuccessRateBelow80(h) ==
    LET total_packets == h.successful_packets + h.failed_packets
    IN total_packets > 0 /\ 10 * h.successful_packets < 8 * total_packets

\* if mqtt_connected_now: metrics["last_mqtt_connected_time"] = current_time
LastMqttTime(h, current_time) ==
    IF h.mqtt_now THEN Some(current_time) ELSE h.last_mqtt_connected_time

mqtt_connection_ok(h, current_time) ==
    LET last_mqtt_time == LastMqttTime(h, current_time)
    IN IF h.mqtt_now THEN TRUE
       ELSE IF last_mqtt_time # None
       THEN ~(current_time - last_mqtt_time[1] > MQTT_CONNECTION_TIMEOUT_SECONDS)
       ELSE ~(current_time - h.start_time > STARTUP_PERIOD)

uwb_data_recent(h, current_time) ==
    IF h.last_uwb_data_time # None
    THEN ~(current_time - h.last_uwb_data_time[1] > UWB_DATA_TIMEOUT_SECONDS)
    ELSE TRUE

\* the if / elif chain that determines the overall status
health_status(h, current_time) ==
    IF ~h.serial_connected THEN "degraded"
    ELSE IF ~mqtt_connection_ok(h, current_time) THEN "unhealthy"
    ELSE IF ~uwb_data_recent(h, current_time) THEN "unhealthy"
    ELSE IF h.consecutive_errors >= CONSECUTIVE_ERRORS_UNHEALTHY THEN "unhealthy"
    ELSE IF h.parsing_errors > 0 /\ SuccessRateBelow80(h) THEN "unhealthy"
    ELSE IF SuccessRateBelow80(h) THEN "degraded"
    ELSE IF h.parsing_errors >= PARSING_ERRORS_UNHEALTHY THEN "unhealthy"
    ELSE "healthy"

get_health_status(h, current_time) ==
    [h EXCEPT !.last_mqtt_connected_time = LastMqttTime(h, current_time),
              !.status = health_status(h, current_time),
              !.calls = 1]

\* how long the monitor has run when its status is asked for
HealthUptimes ==
    {STARTUP_PERIOD, STARTUP_PERIOD + 1, UWB_DATA_TIMEOUT_SECONDS + 1}
\* how long ago MQTT was last seen connected, UWB data last received
MqttAges == {MQTT_CONNECTION_TIMEOUT_SECONDS, MQTT_CONNECTION_TIMEOUT_SECONDS + 1}
UwbAges == {UWB_DATA_TIMEOUT_SECONDS, UWB_DATA_TIMEOUT_SECONDS + 1}
\* parsing errors (each is a failed packet) with successful packets beside them
PacketCounts ==
    {<<0, 0>>, <<0, 4>>, <<1, 3>>, <<1, 4>>,
     <<PARSING_ERRORS_UNHEALTHY - 1, 4 * PARSING_ERRORS_UNHEALTHY>>,
     <<PARSING_ERRORS_UNHEALTHY, 4 * PARSING_ERRORS_UNHEALTHY>>,
     <<PARSING_ERRORS_UNHEALTHY, 4 * PARSING_ERRORS_UNHEALTHY - 1>>}
ConsecutiveErrorCounts ==
    {0, CONSECUTIVE_ERRORS_UNHEALTHY - 1, CONSECUTIVE_ERRORS_UNHEALTHY}

\* the monitors the record_... and update_connection_status calls leave, by the
\* time get_health_status is called
HealthMonitors(start_time, current_time) ==
    LET Seen(ages) ==
            {Some(current_time - a) :
                a \in {x \in {0} \cup ages : current_time - x >= start_time}}
        Counted(pc) ==
            { [NewHealthMonitor(start_time) EXCEPT
                 !.parsing_errors = pc[1], !.failed_packets = pc[1],
                 !.successful_packets = pc[2],
                 !.last_uwb_data_time = uwb,
                 !.last_mqtt_connected_time = mqtt,
                 !.consecutive_errors = ce,
                 !.serial_connected = serial, !.mqtt_now = mqtt_now] :
              uwb \in IF pc[2] = 0 THEN {None} ELSE Seen(UwbAges),
              mqtt \in {None} \cup Seen(MqttAges),
              ce \in ConsecutiveErrorCounts, serial \in BOOLEAN, mqtt_now \in BOOLEAN }
    IN UNION {Counted(pc) : pc \in PacketCounts}

(***************************************************************************)
(* The command callback (_on_message / on_mqtt_message): texts and floats. *)
(* A payload is the sequence of its octets, a text the sequence of its     *)
(* code points.                                                            *)
(***************************************************************************)
\* the characters str.strip() removes (str.isspace)
Whitespace ==
    (9..13) \cup (28..32) \cup {133, 160, 5760} \cup (8192..8202)
    \cup {8232, 8233, 8239, 8287, 12288}
\* an octet no UTF-8 text holds
BadOctet == 255

RECURSIVE Pow10(_)
Pow10(k) == IF k = 0 THEN 1 ELSE 10 * Pow10(k - 1)

\* str(n) for a natural number, in code points
RECURSIVE DecimalChars(_)
DecimalChars(n) ==
    IF n < 10 THEN <<48 + n>>
    ELSE DecimalChars(n \div 10) \o <<48 + (n % 10)>>

\* the number a sequence of decimal digits writes
RECURSIVE DecimalValue(_)
DecimalValue(ds) ==
    IF ds = <<>> THEN 0
    ELSE 10 * DecimalValue(SubSeq(ds, 1, Len(ds) - 1)) + ds[Len(ds)]

Least(S) == CHOOSE i \in S : \A j \in S : i <= j
Greatest(S) == CHOOSE i \in S : \A j \in S : j <= i
\* the k-th member of a set of numbers, counted from the least
Nth(S, k) == CHOOSE i \in S : Cardinality({j \in S : j < i}) = k - 1

Continuation(b) == b \in 128..191

\* the length of the UTF-8 sequence that starts at s[i]; 0: none starts there
Utf8Len(s, i) ==
    IF s[i] <= 127 THEN 1
    ELSE IF s[i] \in 194..223
    THEN IF Len(s) > i /\ Continuation(s[i + 1]) THEN 2 ELSE 0
    ELSE IF s[i] \in 224..239
    THEN IF /\ Len(s) > i + 1 /\ Continuation(s[i + 2])
            /\ s[i + 1] \in (IF s[i] = 224 THEN 160..191
                             ELSE IF s[i] = 237 THEN 128..159 ELSE 128..191)
         THEN 3 ELSE 0
    ELSE IF s[i] \in 240..244
    THEN IF /\ Len(s) > i + 2 /\ Continuation(s[i + 2]) /\ Continuation(s[i + 3])
            /\ s[i + 1] \in (IF s[i] = 240 THEN 144..191
                             ELSE IF s[i] = 244 THEN 128..143 ELSE 128..191)
         THEN 4 ELSE 0
    ELSE 0

\* the code point the n octets from s[i] on encode
Utf8Point(s, i, n) ==
    IF n = 1 THEN s[i]
    ELSE IF n = 2 THEN (s[i] - 192) * 64 + (s[i + 1] - 128)
    ELSE IF n = 3
    THEN (s[i] - 224) * 4096 + (s[i + 1] - 128) * 64 + (s[i + 2] - 128)
    ELSE (s[i] - 240) * 262144 + (s[i + 1] - 128) * 4096 + (s[i + 2] - 128) * 64
         + (s[i + 3] - 128)

\* the octets a sequence starts at, and whether each octet of s is the first
\* of a sequence or one of the octets that follow the first
Starts(s) == {i \in 1..Len(s) : ~Continuation(s[i])}
WellFormed(s) ==
    /\ \A i \in Starts(s) : Utf8Len(s, i) > 0
    /\ \A j \in (1..Len(s)) \ Starts(s) :
          \E i \in Starts(s) : i < j /\ j < i + Utf8Len(s, i)

\* message.payload.decode('utf-8'): the text, or ok FALSE for UnicodeDecodeError
Decode(payload) ==
    IF WellFormed(payload)
    THEN [ok |-> TRUE,
          text |-> [k \in 1..Cardinality(Starts(payload)) |->
                       Utf8Point(payload, Nth(Starts(payload), k),
                                 Utf8Len(payload, Nth(Starts(payload), k)))]]
    ELSE [ok |-> FALSE, text |-> <<>>]

LStrip(s) ==
    IF \A i \in 1..Len(s) : s[i] \in Whitespace THEN <<>>
    ELSE SubSeq(s, Least({i \in 1..Len(s) : s[i] \notin Whitespace}), Len(s))

RStrip(s) ==
    IF \A i \in 1..Len(s) : s[i] \in Whitespace THEN <<>>
    ELSE SubSeq(s, 1, Greatest({i \in 1..Len(s) : s[i] \notin Whitespace}))

\* str.strip()
Strip(s) == RStrip(LStrip(s))

\* str.startswith(prefix)
StartsWith(s, prefix) ==
    Len(s) >= Len(prefix) /\ SubSeq(s, 1, Len(prefix)) = prefix

\* str.split(sep) for a one-character separator: empty pieces are kept
SeparatorsOf(s, sep) == {0, Len(s) + 1} \cup {i \in 1..Len(s) : s[i] = sep}
Split(s, sep) ==
    [k \in 1..(Cardinality(SeparatorsOf(s, sep)) - 1) |->
        SubSeq(s, Nth(SeparatorsOf(s, sep), k) + 1, Nth(SeparatorsOf(s, sep), k + 1) - 1)]

\* A float is kept as the decimal it was read from.  Kind "num" is
\* (-1)^neg * 0.d1 d2 ... dn * 10^point with d1 and dn other than 0, zero
\* having no digits; kind "inf" is an infinity, kind "nan" not a number.
NumFloat(neg, digits, point) ==
    [kind |-> "num", neg |-> neg, digits |-> digits, point |-> point]
InfFloat(neg) == [kind |-> "inf", neg |-> neg, digits |-> <<>>, point |-> 0]
NanFloat == [kind |-> "nan", neg |-> FALSE, digits |-> <<>>, point |-> 0]

DropLeadingZeros(ds) ==
    IF \A i \in 1..Len(ds) : ds[i] = 0 THEN <<>>
    ELSE SubSeq(ds, Least({i \in 1..Len(ds) : ds[i] # 0}), Len(ds))

DropTrailingZeros(ds) ==
    IF \A i \in 1..Len(ds) : ds[i] = 0 THEN <<>>
    ELSE SubSeq(ds, 1, Greatest({i \in 1..Len(ds) : ds[i] # 0}))

\* the i-th digit after the point of 0.ds
DigitAt(ds, i) == IF i <= Len(ds) THEN ds[i] ELSE 0

\* 0.a < 0.b for two sequences of digits after the point
DigitsLess(a, b) ==
    \E i \in 1..Max(Len(a), Len(b)) :
        /\ DigitAt(a, i) < DigitAt(b, i)
        /\ \A j \in 1..(i - 1) : DigitAt(a, j) = DigitAt(b, j)

\* The range of a float.  A decimal of 2^1024 - 2^970 = 0.1797...e309 or more
\* is read as inf (the tie goes to 2^1024, which is out of range), one of
\* 2^-1075 = 0.2470...e-323 or less as zero (the tie goes to the even 0.0),
\* one above it as 5e-324 or more.  The two are written out in full: the 309
\* digits of 2^1024 - 2^970 and the 752 digits of 5^1075.
MaxFloatDigits ==
    <<1, 7, 9, 7, 6, 9, 3, 1, 3, 4, 8, 6, 2, 3, 1, 5, 8, 0, 7, 9, 3, 7, 2, 8, 9, 7, 1, 4,
      0, 5, 3, 0, 3, 4, 1, 5, 0, 7, 9, 9, 3, 4, 1, 3, 2, 7, 1, 0, 0, 3, 7, 8, 2, 6, 9, 3,
      6, 1, 7, 3, 7, 7, 8, 9, 8, 0, 4, 4, 4, 9, 6, 8, 2, 9, 2, 7, 6, 4, 7, 5, 0, 9, 4, 6,
      6, 4, 9, 0, 1, 7, 9, 7, 7, 5, 8, 7, 2, 0, 7, 0, 9, 6, 3, 3, 0, 2, 8, 6, 4, 1, 6, 6,
      9, 2, 8, 8, 7, 9, 1, 0, 9, 4, 6, 5, 5, 5, 5, 4, 7, 8, 5, 1, 9, 4, 0, 4, 0, 2, 6, 3,
      0, 6, 5, 7, 4, 8, 8, 6, 7, 1, 5, 0, 5, 8, 2, 0, 6, 8, 1, 9, 0, 8, 9, 0, 2, 0, 0, 0,
      7, 0, 8, 3, 8, 3, 6, 7, 6, 2, 7, 3, 8, 5, 4, 8, 4, 5, 8, 1, 7, 7, 1, 1, 5, 3, 1, 7,
      6, 4, 4, 7, 5, 7, 3, 0, 2, 7, 0, 0, 6, 9, 8, 5, 5, 5, 7, 1, 3, 6, 6, 9, 5, 9, 6, 2,
      2, 8, 4, 2, 9, 1, 4, 8, 1, 9, 8, 6, 0, 8, 3, 4, 9, 3, 6, 4, 7, 5, 2, 9, 2, 7, 1, 9,
      0, 7, 4, 1, 6, 8, 4, 4, 4, 3, 6, 5, 5, 1, 0, 7, 0, 4, 3, 4, 2, 7, 1, 1, 5, 5, 9, 6,
      9, 9, 5, 0, 8, 0, 9, 3, 0, 4, 2, 8, 8, 0, 1, 7, 7, 9, 0, 4, 1, 7, 4, 4, 9, 7, 7, 9,
      2>>
MinFloatDigits ==
    <<2, 4, 7, 0, 3, 2, 8, 2, 2, 9, 2, 0, 6, 2, 3, 2, 7, 2, 0, 8, 8, 2, 8, 4, 3, 9, 6, 4,
      3, 4, 1, 1, 0, 6, 8, 6, 1, 8, 2, 5, 2, 9, 9, 0, 1, 3, 0, 7, 1, 6, 2, 3, 8, 2, 2, 1,
      2, 7, 9, 2, 8, 4, 1, 2, 5, 0, 3, 3, 7, 7, 5, 3, 6, 3, 5, 1, 0, 4, 3, 7, 5, 9, 3, 2,
      6, 4, 9, 9, 1, 8, 1, 8, 0, 8, 1, 7, 9, 9, 6, 1, 8, 9, 8, 9, 8, 2, 8, 2, 3, 4, 7, 7,
      2, 2, 8, 5, 8, 8, 6, 5, 4, 6, 3, 3, 2, 8, 3, 5, 5, 1, 7, 7, 9, 6, 9, 8, 9, 8, 1, 9,
      9, 3, 8, 7, 3, 9, 8, 0, 0, 5, 3, 9, 0, 9, 3, 9, 0, 6, 3, 1, 5, 0, 3, 5, 6, 5, 9, 5,
      1, 5, 5, 7, 0, 2, 2, 6, 3, 9, 2, 2, 9, 0, 8, 5, 8, 3, 9, 2, 4, 4, 9, 1, 0, 5, 1, 8,
      4, 4, 3, 5, 9, 3, 1, 8, 0, 2, 8, 4, 9, 9, 3, 6, 5, 3, 6, 1, 5, 2, 5, 0, 0, 3, 1, 9,
      3, 7, 0, 4, 5, 7, 6, 7, 8, 2, 4, 9, 2, 1, 9, 3, 6, 5, 6, 2, 3, 6, 6, 9, 8, 6, 3, 6,
      5, 8, 4, 8, 0, 7, 5, 7, 0, 0, 1, 5, 8, 5, 7, 6, 9, 2, 6, 9, 9, 0, 3, 7, 0, 6, 3, 1,
      1, 9, 2, 8, 2, 7, 9, 5, 5, 8, 5, 5, 1, 3, 3, 2, 9, 2, 7, 8, 3, 4, 3, 3, 8, 4, 0, 9,
      3, 5, 1, 9, 7, 8, 0, 1, 5, 5, 3, 1, 2, 4, 6, 5, 9, 7, 2, 6, 3, 5, 7, 9, 5, 7, 4, 6,
      2, 2, 7, 6, 6, 4, 6, 5, 2, 7, 2, 8, 2, 7, 2, 2, 0, 0, 5, 6, 3, 7, 4, 0, 0, 6, 4, 8,
      5, 4, 9, 9, 9, 7, 7, 0, 9, 6, 5, 9, 9, 4, 7, 0, 4, 5, 4, 0, 2, 0, 8, 2, 8, 1, 6, 6,
      2, 2, 6, 2, 3, 7, 8, 5, 7, 3, 9, 3, 4, 5, 0, 7, 3, 6, 3, 3, 9, 0, 0, 7, 9, 6, 7, 7,
      6, 1, 9, 3, 0, 5, 7, 7, 5, 0, 6, 7, 4, 0, 1, 7, 6, 3, 2, 4, 6, 7, 3, 6, 0, 0, 9, 6,
      8, 9, 5, 1, 3, 4, 0, 5, 3, 5, 5, 3, 7, 4, 5, 8, 5, 1, 6, 6, 6, 1, 1, 3, 4, 2, 2, 3,
      7, 6, 6, 6, 7, 8, 6, 0, 4, 1, 6, 2, 1, 5, 9, 6, 8, 0, 4, 6, 1, 9, 1, 4, 4, 6, 7, 2,
      9, 1, 8, 4, 0, 3, 0, 0, 5, 3, 0, 0, 5, 7, 5, 3, 0, 8, 4, 9, 0, 4, 8, 7, 6, 5, 3, 9,
      1, 7, 1, 1, 3, 8, 6, 5, 9, 1, 6, 4, 6, 2, 3, 9, 5, 2, 4, 9, 1, 2, 6, 2, 3, 6, 5, 3,
      8, 8, 1, 8, 7, 9, 6, 3, 6, 2, 3, 9, 3, 7, 3, 2, 8, 0, 4, 2, 3, 8, 9, 1, 0, 1, 8, 6,
      7, 2, 3, 4, 8, 4, 9, 7, 6, 6, 8, 2, 3, 5, 0, 8, 9, 8, 6, 3, 3, 8, 8, 5, 8, 7, 9, 2,
      5, 6, 2, 8, 3, 0, 2, 7, 5, 5, 9, 9, 5, 6, 5, 7, 5, 2, 4, 4, 5, 5, 5, 0, 7, 2, 5, 5,
      1, 8, 9, 3, 1, 3, 6, 9, 0, 8, 3, 6, 2, 5, 4, 7, 7, 9, 1, 8, 6, 9, 4, 8, 6, 6, 7, 9,
      9, 4, 9, 6, 8, 3, 2, 4, 0, 4, 9, 7, 0, 5, 8, 2, 1, 0, 2, 8, 5, 1, 3, 1, 8, 5, 4, 5,
      1, 3, 9, 6, 2, 1, 3, 8, 3, 7, 7, 2, 2, 8, 2, 6, 1, 4, 5, 4, 3, 7, 6, 9, 3, 4, 1, 2,
      5, 3, 2, 0, 9, 8, 5, 9, 1, 3, 2, 7, 6, 6, 7, 2, 3, 6, 3, 2, 8, 1, 2, 5>>

Overflows(digits, point) ==
    point > 309 \/ (point = 309 /\ ~DigitsLess(digits, MaxFloatDigits))
Underflows(digits, point) ==
    point < -323 \/ (point = -323 /\ ~DigitsLess(MinFloatDigits, digits))

\* the float read from the digits ds with the point after the first
\* `exponent` of them
Rounded(neg, ds, exponent) ==
    LET lead == DropLeadingZeros(ds)
        digits == DropTrailingZeros(lead)
        point == exponent - (Len(ds) - Len(lead))
    IN IF digits = <<>> THEN NumFloat(neg, <<>>, 0)
       ELSE IF Overflows(digits, point) THEN InfFloat(neg)
       ELSE IF Underflows(digits, point) THEN NumFloat(neg, <<>>, 0)
       ELSE NumFloat(neg, digits, point)

\* the float of a whole number of seconds
Seconds(n) == Rounded(FALSE, [i \in 1..Len(DecimalChars(n)) |-> DecimalChars(n)[i] - 48],
                      Len(DecimalChars(n)))

\* the Unicode decimal digits (category Nd) come in runs of ten: the code
\* point of the zero of each run
DecimalZeros ==
    {48, 1632, 1776, 1984, 2406, 2534, 2662, 2790, 2918, 3046, 3174, 3302, 3430,
     3558, 3664, 3792, 3872, 4160, 4240, 6112, 6160, 6470, 6608, 6784, 6800, 6992,
     7088, 7232, 7248, 42528, 43216, 43264, 43472, 43504, 43600, 44016, 65296,
     66720, 68912, 69734, 69872, 69942, 70096, 70384, 70736, 70864, 71248, 71360,
     71472, 71904, 72016, 72784, 73040, 73120, 92768, 92864, 93008, 120782,
     120792, 120802, 120812, 120822, 123200, 123632, 125264, 130032}
IsDecimal(c) == \E z \in DecimalZeros : c \in z..(z + 9)
Decimal(c) == c - (CHOOSE z \in DecimalZeros : c \in z..(z + 9))

\* float() on a str, first pass: a character above ASCII becomes a space when
\* it is white space, its ASCII digit when it is a decimal digit, '?' otherwise
ToAscii(c) ==
    IF c < 127 THEN c
    ELSE IF c \in Whitespace THEN 32
    ELSE IF IsDecimal(c) THEN 48 + Decimal(c)
    ELSE 63
ToAsciiAll(s) == [i \in 1..Len(s) |-> ToAscii(s[i])]

IsDigit(c) == c \in 48..57
NotUnderscore(c) == c # 95

\* second pass: an underscore is allowed between two digits only
UnderscoresOk(z) ==
    \A i \in 1..Len(z) :
        z[i] = 95 => i > 1 /\ i < Len(z) /\ IsDigit(z[i - 1]) /\ IsDigit(z[i + 1])

\* third pass: leading and trailing ASCII white space is skipped
AsciiSpace == (9..13) \cup {32}
AsciiStrip(z) ==
    IF \A i \in 1..Len(z) : z[i] \in AsciiSpace THEN <<>>
    ELSE SubSeq(z, Least({i \in 1..Len(z) : z[i] \notin AsciiSpace}),
                Greatest({i \in 1..Len(z) : z[i] \notin AsciiSpace}))

FloatText(token) == AsciiStrip(SelectSeq(ToAsciiAll(token), NotUnderscore))
Negative(t) == t # <<>> /\ t[1] = 45
Unsigned(t) == IF t # <<>> /\ t[1] \in {43, 45} THEN Tail(t) ELSE t

Lower(c) == IF c \in 65..90 THEN c + 32 ELSE c
LowerAll(s) == [i \in 1..Len(s) |-> Lower(s[i])]
InfWords == { <<105, 110, 102>>, <<105, 110, 102, 105, 110, 105, 116, 121>> }
NanWord == <<110, 97, 110>>

\* the number of digits of z from position i on
DigitRun(z, i) ==
    IF \A j \in i..Len(z) : IsDigit(z[j]) THEN Max(Len(z) - i + 1, 0)
    ELSE Least({j \in i..Len(z) : ~IsDigit(z[j])}) - i

\* digits [. digits] [e [sign] digits], at least one digit before the exponent
IntDigits(body) == DigitRun(body, 1)
HasPoint(body) == IntDigits(body) < Len(body) /\ body[IntDigits(body) + 1] = 46
FracDigits(body) == IF HasPoint(body) THEN DigitRun(body, IntDigits(body) + 2) ELSE 0
MantissaEnd(body) ==
    IntDigits(body) + (IF HasPoint(body) THEN 1 + FracDigits(body) ELSE 0)
ExponentPart(body) == SubSeq(body, MantissaEnd(body) + 1, Len(body))
ExponentDigitsAt(x) == IF Len(x) >= 2 /\ x[2] \in {43, 45} THEN 3 ELSE 2
ExponentOk(x) ==
    \/ x = <<>>
    \/ /\ x[1] \in {101, 69}
       /\ ExponentDigitsAt(x) <= Len(x)
       /\ DigitRun(x, ExponentDigitsAt(x)) = Len(x) - ExponentDigitsAt(x) + 1
IsNumber(body) ==
    IntDigits(body) + FracDigits(body) >= 1 /\ ExponentOk(ExponentPart(body))

\* the digits before and after the point
Mantissa(body) ==
    [i \in 1..(IntDigits(body) + FracDigits(body)) |->
        IF i <= IntDigits(body) THEN body[i] - 48 ELSE body[i + 1] - 48]

\* the exponent, a million standing for any larger one
ExponentValue(x) ==
    IF x = <<>> THEN 0
    ELSE LET ds == DropLeadingZeros([i \in 1..(Len(x) - ExponentDigitsAt(x) + 1) |->
                                        x[ExponentDigitsAt(x) + i - 1] - 48])
             size == IF Len(ds) > 6 THEN 1000000 ELSE DecimalValue(ds)
         IN IF x[2] = 45 THEN -size ELSE size

\* float(token): ok FALSE for ValueError.  Decimal digits of any script, white
\* space around the number, single underscores between digits, an exponent,
\* inf, infinity and nan in either case are read as Python reads them.
NotAFloat == [ok |-> FALSE, value |-> NanFloat]
Float(token) ==
    LET t == FloatText(token)
        body == Unsigned(t)
    IN IF ~UnderscoresOk(ToAsciiAll(token)) THEN NotAFloat
       ELSE IF LowerAll(body) \in InfWords
       THEN [ok |-> TRUE, value |-> InfFloat(Negative(t))]
       ELSE IF LowerAll(body) = NanWord THEN [ok |-> TRUE, value |-> NanFloat]
       ELSE IF IsNumber(body)
       THEN [ok |-> TRUE,
             value |-> Rounded(Negative(t), Mantissa(body),
                               IntDigits(body) + ExponentValue(ExponentPart(body)))]
       ELSE NotAFloat

\* the whole part of |v|, a thousand million standing for any larger one
IntPart(v) ==
    IF v.point <= 0 THEN 0
    ELSE IF v.point > 9 THEN Pow10(9)
    ELSE IF v.point >= Len(v.digits)
    THEN DecimalValue(v.digits) * Pow10(v.point - Len(v.digits))
    ELSE DecimalValue(SubSeq(v.digits, 1, v.point))

\* the digits of |v| after the point (v.point >= 0)
FracPart(v) ==
    IF v.point >= Len(v.digits) THEN <<>>
    ELSE SubSeq(v.digits, v.point + 1, Len(v.digits))

RECURSIVE Log2(_)
Log2(n) == IF n < 2 THEN 0 ELSE 1 + Log2(n \div 2)

\* the digits after the point of 2^-53, half the distance from 1 to the next
\* float
HalfEpsilon ==
    <<0, 0, 0, 0, 0, 0, 0, 0, 0, 0, 0, 0, 0, 0, 0, 1, 1, 1, 0, 2, 2, 3, 0, 2, 4, 6, 2,
      5, 1, 5, 6, 5, 4, 0, 4, 2, 3, 6, 3, 1, 6, 6, 8, 0, 9, 0, 8, 2, 0, 3, 1, 2, 5>>

\* the digits after the point of twice 0.ds, for 0.ds below one half
Twice(ds) ==
    [i \in 1..Len(ds) |->
        (2 * ds[i] + (IF i < Len(ds) /\ ds[i + 1] >= 5 THEN 1 ELSE 0)) % 10]

\* the digits after the point of 2^(e-53), e < 53
RECURSIVE HalfSpacing(_)
HalfSpacing(e) == IF e = 0 THEN HalfEpsilon ELSE Twice(HalfSpacing(e - 1))

\* The float nearest to the positive decimal v is above the whole number n,
\* where n is the whole part of v: floats around n in [2^e, 2^(e+1)) are
\* 2^(e-52) apart and a decimal no more than half of that above n is read as n.
RoundsAbove(n, v) ==
    IF n = 0 THEN v.digits # <<>>
    ELSE DigitsLess(HalfSpacing(Log2(n)), FracPart(v))

\* t < v for a whole number t (a difference of two clock readings) and a
\* float v
Below(t, v) ==
    IF v.kind = "nan" THEN FALSE
    ELSE IF v.kind = "inf" THEN ~v.neg
    ELSE IF v.neg \/ v.digits = <<>> THEN t < -IntPart(v)
    ELSE t < IntPart(v) \/ (t = IntPart(v) /\ RoundsAbove(t, v))

\* t = v
Equals(t, v) ==
    /\ v.kind = "num" /\ t = (IF v.neg THEN -IntPart(v) ELSE IntPart(v))
    /\ IF v.neg \/ v.digits = <<>> THEN v.point >= Len(v.digits)
       ELSE ~RoundsAbove(t, v)

\* new_rate >= 0
NonNegativeRate(new_rate) ==
    \/ new_rate.kind = "inf" /\ ~new_rate.neg
    \/ new_rate.kind = "num" /\ (~new_rate.neg \/ new_rate.digits = <<>>)

\* if new_rate > 0
PositiveRate(new_rate) ==
    /\ new_rate.kind \in {"inf", "num"} /\ ~new_rate.neg
    /\ new_rate.kind = "num" => new_rate.digits # <<>>

\* 'set rate_limit '
SetRateLimitPrefix ==
    <<115, 101, 116, 32, 114, 97, 116, 101, 95, 108, 105, 109, 105, 116, 32>>

\* the callback up to the write: the branch that logs and the value read
Command(payload) ==
    LET decoded == Decode(payload)
        text == Strip(decoded.text)
        parts == Split(text, 32)
        new_rate == Float(parts[3])
        Left(log) == [new_rate |-> NanFloat, log |-> log]
    IN IF ~decoded.ok THEN Left("error")
       ELSE IF ~StartsWith(text, SetRateLimitPrefix) THEN Left("unknown")
       ELSE IF Len(parts) < 3 \/ ~new_rate.ok THEN Left("unparseable")
       ELSE IF PositiveRate(new_rate.value)
       THEN [new_rate |-> new_rate.value, log |-> "updated"]
       ELSE Left("invalid")

\* self.rate_limit = new_rate on the one branch that writes
Written(read, current_rate_limit) ==
    [rate_limit |-> IF read.log = "updated" THEN read.new_rate
                    ELSE current_rate_limit,
     log |-> read.log]

\* the body of the callback: the register it leaves and the branch that logged
on_mqtt_message(payload, current_rate_limit) ==
    Written(Command(payload), current_rate_limit)

\* 'set rate_limit <n>'
SetRateLimit(n) == SetRateLimitPrefix \o DecimalChars(n)

\* the values a client writes after 'set rate_limit '
RateTexts ==
    { <<50, 46, 48>>,                      \* 2.0
      <<43, 49>>,                          \* +1
      <<45, 49>>,                          \* -1
      <<46, 53>>,                          \* .5
      <<50, 46, 53>>,                      \* 2.5
      <<49, 101, 49>>,                     \* 1e1
      <<49, 95, 48>>,                      \* 1_0
      <<49, 101, 45, 52, 48, 48>>,         \* 1e-400
      \* 1.797693134862315807937289714051e308, the largest float: just under 2^1024 - 2^970
      <<49, 46, 55, 57, 55, 54, 57, 51, 49, 51, 52, 56, 54, 50, 51, 49, 53, 56, 48, 55,
        57, 51, 55, 50, 56, 57, 55, 49, 52, 48, 53, 49, 101, 51, 48, 56>>,
      \* 1.797693134862315807937289714054e308, just over it: inf
      <<49, 46, 55, 57, 55, 54, 57, 51, 49, 51, 52, 56, 54, 50, 51, 49, 53, 56, 48, 55,
        57, 51, 55, 50, 56, 57, 55, 49, 52, 48, 53, 52, 101, 51, 48, 56>>,
      \* 2.470328229206232720882843964341e-324, just under 2^-1075: 0.0
      <<50, 46, 52, 55, 48, 51, 50, 56, 50, 50, 57, 50, 48, 54, 50, 51, 50, 55, 50, 48,
        56, 56, 50, 56, 52, 51, 57, 54, 52, 51, 52, 49, 101, 45, 51, 50, 52>>,
      \* 2.470328229206232720882843964342e-324, just over it: 5e-324
      <<50, 46, 52, 55, 48, 51, 50, 56, 50, 50, 57, 50, 48, 54, 50, 51, 50, 55, 50, 48,
        56, 56, 50, 56, 52, 51, 57, 54, 52, 51, 52, 50, 101, 45, 51, 50, 52>>,
      <<105, 110, 102>>,                   \* inf
      <<45, 105, 110, 102>>,               \* -inf
      <<78, 97, 78>>,                      \* NaN
      <<102, 97, 115, 116>>,               \* fast
      <<9, 50>>,                           \* a tab, 2
      <<217, 163>>,                        \* the Arabic-Indic digit three, U+0663
      <<32, 50>>,                          \* a space, 2
      <<50, 32, 115>> }                    \* 2 s

\* the commands a client sends
CommandPayloads ==
    {SetRateLimit(n) : n \in 0..MaxRate}
    \cup {SetRateLimitPrefix \o text : text \in RateTexts}
    \cup { <<32>> \o SetRateLimit(1) \o <<10>>,
           <<9>> \o SetRateLimit(2) \o <<13, 10>>,
           SubSeq(SetRateLimitPrefix, 1, Len(SetRateLimitPrefix) - 1),
           SetRateLimitPrefix,
           <<114, 101, 115, 101, 116>>,    \* reset
           <<BadOctet>>,
           <<>> }

\* what the callback reads in each of these commands
CommandsRead == [payload \in CommandPayloads |-> Command(payload)]

(***************************************************************************)
(* Initial states                                                          *)
(***************************************************************************)
IdleMat == [pc |-> "idle", edge_list |-> <<>>, todo |-> <<>>, timestamp |-> 0,
            uwbs |-> <<>>]
NoLookup == [by |-> "none", key |-> <<>>, max_age |-> None, check |-> TRUE,
             at |-> 0, result |-> None]
NoKeys == [cache |-> <<>>, uwb_cache |-> <<>>]
\* holding: inside `with self._cache_lock`; todo: the entries still to examine;
\* examined: the entries examined, each with the clock reading of its
\* _is_data_valid call; at, removed, overdue: when the last sweep completed,
\* whether it deleted anything, and whether it left an entry that was by then
\* older than both TTLs
NoSweep == [holding |-> FALSE, todo |-> <<>>, expired_dev_euis |-> <<>>,
            expired_uwb_ids |-> <<>>, examined |-> <<>>,
            at |-> None, removed |-> FALSE, overdue |-> FALSE]

InitPubRec ==
    [pc |-> "idle", rate_limit |-> Seconds(MaxRate), last_publish_time |-> 0,
     current_time |-> 0, time_since_last |-> 0, rate_sample |-> Seconds(0),
     client |-> FALSE, connected |-> FALSE, count |-> 0, prev_time |-> 0,
     last_rate |-> Seconds(0), failures |-> 0, skipped |-> 0]

InitCacheIdle ==
    /\ cache = <<>> /\ uwb_cache = <<>> /\ keys = NoKeys
    /\ sweep = NoSweep /\ lookup = NoLookup /\ mat = IdleMat
InitParserIdle ==
    /\ stream = <<>> /\ arrived = 0 /\ pieces = 0 /\ fr = InitFr /\ network = None
InitPubIdle == pub = InitPubRec
InitCallbackIdle == callback = None
InitValIdle == validator = DefaultValidator
NoUplink == [msg |-> None, at |-> None]
InitUplinkIdle == uplink = NoUplink
InitHealthIdle == health = NewHealthMonitor(StartTime)
InitSentIdle == sent = <<>>
NoShutdown ==
    [pos |-> 0, phase |-> "none", lora_cache |-> FALSE, mqtt_client |-> TRUE,
     cache_client |-> FALSE,
     thread_alive |-> FALSE, cleanup_alive |-> FALSE, waited |-> 0,
     join_waits |-> <<>>, steps |-> <<>>, exit_code |-> None]
InitShutdownIdle == shutdown = NoShutdown
InitRecoveryIdle ==
    recovery = NewErrorRecovery(MAX_PARSING_ERRORS, connection_error_threshold)
NoCommand == [payload |-> <<>>, log |-> "none"]
InitCommandIdle == command = NoCommand
InitResetIdle == reset_times = <<>>
\* LoraTagDataCache.__init__: no thread, no client, both flags down
NewLifecycle ==
    [_running |-> FALSE, _cleanup_running |-> FALSE, _thread |-> None,
     _cleanup_thread |-> None, mqtt_client |-> None, run |-> <<>>, cleanup |-> <<>>,
     loops |-> [i \in 1..MaxStarts |-> "none"], last_sweep_by |-> None,
     call |-> "none", waited |-> 0, last |-> "none"]
InitLifecycleIdle == lifecycle = NewLifecycle

\* Python keeps one dictionary per cached_data built; an index entry and a
\* returned record are references to it.  objects[i] is the content of the i-th
\* dictionary, cache_ref and uwb_ref name the dictionary of each index entry,
\* held the dictionary the last lookup returned and seen its content then.
NewReader ==
    [objects |-> <<>>, cache_ref |-> <<>>, uwb_ref |-> <<>>, held |-> None, seen |-> None]
InitReaderIdle == reader = NewReader

\* args as argparse leaves it, the two flags the model follows; both are off
\* by default.  uwb_converter exists only with --cga-format, and with it the
\* anchor map.
Args(cga_format, disable_mqtt) == [cga_format |-> cga_format, disable_mqtt |-> disable_mqtt]
\* the script run with --disable-mqtt, with --cga-format (and either anchor
\* map) or with the default edge-list output
InitArgsAnyFormat ==
    \E c \in BOOLEAN :
        /\ args = Args(c, TRUE)
        /\ anchor_map \in (IF c THEN AnchorMaps ELSE {NoAnchors})
\* --cga-format --disable-mqtt without an anchor file, or --disable-mqtt alone
InitArgsNoAnchors ==
    /\ args \in {Args(c, TRUE) : c \in BOOLEAN}
    /\ anchor_map = NoAnchors

\* the whole stream is already in the input buffer
InitParse ==
    /\ stream \in ParseStreams /\ arrived = Len(stream) /\ pieces = 1
    /\ fr = InitFr /\ network = None
    /\ InitArgsAnyFormat
    /\ now = StartTime /\ InitCacheIdle /\ InitPubIdle /\ InitCallbackIdle /\ InitReaderIdle /\ InitLifecycleIdle /\ InitShutdownIdle /\ InitSentIdle /\ InitRecoveryIdle /\ InitUplinkIdle /\ InitHealthIdle /\ InitCommandIdle /\ InitResetIdle /\ InitValIdle

\* nothing has arrived yet
InitFrame ==
    /\ stream \in FrameStreams /\ arrived = 0 /\ pieces = 0
    /\ fr = InitFr /\ network = None
    /\ anchor_map \in AnchorMaps /\ args = Args(TRUE, TRUE)
    /\ now = StartTime /\ InitCacheIdle /\ InitPubIdle /\ InitCallbackIdle /\ InitReaderIdle /\ InitLifecycleIdle /\ InitShutdownIdle /\ InitSentIdle /\ InitRecoveryIdle /\ InitUplinkIdle /\ InitHealthIdle /\ InitCommandIdle /\ InitResetIdle /\ InitValIdle

\* the converter beside the cache has the anchor file: --cga-format
\* --anchor-config, MQTT enabled
InitConfAnchored == anchor_map \in AnchorMaps \ {NoAnchors} /\ args = Args(TRUE, FALSE)

InitCache ==
    now = StartTime /\ InitCacheIdle /\ InitParserIdle /\ InitPubIdle /\ InitCallbackIdle /\ InitReaderIdle /\ InitLifecycleIdle /\ InitShutdownIdle /\ InitSentIdle /\ InitRecoveryIdle /\ InitUplinkIdle /\ InitHealthIdle /\ InitCommandIdle /\ InitResetIdle /\ InitValIdle /\ InitConfAnchored
InitPub ==
    now = StartTime /\ InitCacheIdle /\ InitParserIdle /\ InitPubIdle /\ InitCallbackIdle /\ InitReaderIdle /\ InitLifecycleIdle /\ InitShutdownIdle /\ InitSentIdle /\ InitRecoveryIdle /\ InitUplinkIdle /\ InitHealthIdle /\ InitCommandIdle /\ InitResetIdle /\ InitValIdle /\ InitConfAnchored

\* if time_since_last < rate_limit: return
RateLimitedInclusive(time_since_last, rate_limit) ==
    Below(time_since_last, rate_limit) \/ Equals(time_since_last, rate_limit)

RateLimitedOffByOne(time_since_last, rate_limit) == Below(time_since_last + 1, rate_limit)

RateLimited(time_since_last, rate_limit) == Below(time_since_last, rate_limit)

\* publish_to_mqtt(data) / publish(): without a client, or with
\* --disable-mqtt, it returns before it reads anything
Publishes(p) == p.client /\ ~args.disable_mqtt

\* current_time = time.time(); time_since_last = current_time - last_publish_time
Stamped(p, t) ==
    [p EXCEPT !.pc = "stamped", !.current_time = t,
              !.time_since_last = t - p.last_publish_time]

\* with rate_limit_lock: rate_limit = current_rate_limit
Sampled(p) == [p EXCEPT !.pc = "sampled", !.rate_sample = p.rate_limit]

\* the document goes out: the attempt is not inside the interval, the client
\* is connected and the library returned MQTT_ERR_SUCCESS (ok)
Accepted(p, ok) ==
    ~RateLimited(p.time_since_last, p.rate_sample) /\ p.connected /\ ok

\* the rest: the rate test, is_connected, client.publish and its rc
Decided(p, ok) ==
    IF RateLimited(p.time_since_last, p.rate_sample)
    THEN [p EXCEPT !.pc = "idle", !.skipped = Min(@ + 1, 1)]
    ELSE IF ~p.connected
    THEN [p EXCEPT !.pc = "idle"]
    ELSE IF ok
    THEN [p EXCEPT !.pc = "idle",
                   !.last_publish_time = p.current_time,
                   !.prev_time = p.last_publish_time,
                   !.last_rate = p.rate_sample,
                   !.count = Min(@ + 1, 2)]
    ELSE [p EXCEPT !.pc = "idle", !.failures = Min(@ + 1, 1)]

(***************************************************************************)
(* Actions of the main loop                                                *)
(***************************************************************************)
\* lora_cache of the script's converter: None, for with --enable-lora-cache the
\* script stops before the loop (log_info is called above its definition)
NoLoraCache == <<>>

\* every edge emitted so far, handed over as one document
PrintListMerged(f, g) ==
    IF Len(g.emitted) > Len(f.emitted)
    THEN IF args.cga_format
         THEN Some(convert_edges_to_network(FormatEdges(Concat(g.emitted)),
                                            now, NoLoraCache, now))
         ELSE Some(FormatEdges(Concat(g.emitted)))
    ELSE network

\* print_list(results) for the results the step appended, if any: the
\* document it hands to publish_to_mqtt is the converter's network with
\* --cga-format and formatted_data, the list of edges, without.  (The except
\* branch hands on formatted_data too; this conversion raises on no input.)
PrintList(f, g) ==
    IF Len(g.emitted) > Len(f.emitted)
    THEN IF args.cga_format
         THEN Some(convert_edges_to_network(FormatEdges(g.emitted[Len(g.emitted)]),
                                            now, NoLoraCache, now))
         ELSE Some(FormatEdges(g.emitted[Len(g.emitted)]))
    ELSE network

\* octets reach the input buffer, any number at a time
Arrive ==
    /\ \E n \in 1..(Len(stream) - arrived) : arrived' = arrived + n
    /\ pieces' = Min(pieces + 1, 2)
    /\ UNCHANGED <<confVars, callbackVars, readerVars, lifeVars, shutdownVars, sentVars, recoveryVars, uplinkVars, healthVars, cmdVars, resetVars, valVars, stream, fr, network, now, cacheVars, pubVars>>

\* reset(ser) of this step, if it began one: the time DTR was raised
ResetTimes(f, g) ==
    IF g.pc = "reset" /\ f.pc # "reset" THEN Append(reset_times, now) ELSE reset_times

ReadByte ==
    /\ fr.pc = "scan" /\ CanStep(fr, arrived)
    /\ fr' = ReadByteStep(fr, stream)
    /\ reset_times' = ResetTimes(fr, fr')
    /\ UNCHANGED <<confVars, callbackVars, readerVars, lifeVars, shutdownVars, sentVars, recoveryVars, uplinkVars, healthVars, cmdVars, valVars, stream, arrived, pieces, network, now, cacheVars, pubVars>>

\* The main loop on a payload: read(ser, l) returns, the packet is parsed and
\* print_list, reading the clock, formats its results.  The pass is over
\* unless a reset is due (pc "reset") or publish_to_mqtt has something to
\* read (pc "publish").
ReadPayload ==
    /\ fr.pc = "payload" /\ CanStep(fr, arrived)
    /\ LET g == ReadPayloadStep(fr, stream, arrived)
       IN fr' = IF Len(g.emitted) > Len(fr.emitted) /\ Publishes(pub)
                THEN [g EXCEPT !.pc = "publish"] ELSE g
    /\ network' = PrintList(fr, fr')
    /\ reset_times' = ResetTimes(fr, fr')
    /\ sent' = <<>>
    /\ UNCHANGED <<confVars, callbackVars, readerVars, lifeVars, shutdownVars, recoveryVars, uplinkVars, healthVars, cmdVars, valVars, stream, arrived, pieces, now, cacheVars, pubVars>>

\* reset(ser) wakes from its sleep: DTR is lowered and the counter cleared;
\* then the input buffer, s and the Assignment are emptied
ResetDevice ==
    /\ fr.pc = "reset"
    /\ fr' = ResetPath(fr, arrived)
    /\ UNCHANGED <<confVars, callbackVars, readerVars, lifeVars, shutdownVars, sentVars, recoveryVars, uplinkVars, healthVars, cmdVars, resetVars, valVars, stream, arrived, pieces, network, now, cacheVars, pubVars>>

\* publish_to_mqtt(network_data), called by print_list: the clock is read
PublishToMqttStamp ==
    /\ fr.pc = "publish" /\ pub.pc = "idle"
    /\ pub' = Stamped(pub, now)
    /\ UNCHANGED <<confVars, callbackVars, readerVars, lifeVars, shutdownVars, sentVars, recoveryVars, uplinkVars, healthVars, cmdVars, resetVars, valVars, parserVars, now, cacheVars>>

\* with rate_limit_lock: rate_limit = current_rate_limit
PublishToMqttSample ==
    /\ fr.pc = "publish" /\ pub.pc = "stamped"
    /\ pub' = Sampled(pub)
    /\ UNCHANGED <<confVars, callbackVars, readerVars, lifeVars, shutdownVars, sentVars, recoveryVars, uplinkVars, healthVars, cmdVars, resetVars, valVars, parserVars, now, cacheVars>>

\* the document is published or it is not, and the loop goes on
PublishToMqttSend ==
    /\ fr.pc = "publish" /\ pub.pc = "sampled"
    /\ \E ok \in BOOLEAN :
         /\ pub' = Decided(pub, ok)
         /\ sent' = IF Accepted(pub, ok) THEN <<network[1]>> ELSE <<>>
    /\ fr' = [fr EXCEPT !.pc = "scan"]
    /\ UNCHANGED <<confVars, callbackVars, readerVars, lifeVars, shutdownVars, recoveryVars, uplinkVars, healthVars, cmdVars, resetVars, valVars, stream, arrived, pieces, network, now, cacheVars>>

(***************************************************************************)
(* Clock                                                                   *)
(***************************************************************************)
Tick ==
    /\ now < MaxTime
    /\ now' = now + 1
    /\ lookup' = NoLookup
    /\ command' = NoCommand
    /\ UNCHANGED <<confVars, callbackVars, readerVars, lifeVars, shutdownVars, sentVars, recoveryVars, uplinkVars, healthVars, resetVars, valVars, parserVars, cache, uwb_cache, keys, sweep, mat, pubVars>>

(***************************************************************************)
(* Actions of the LoRa cache                                               *)
(***************************************************************************)
\* _on_message up to the lock: the uplink is decoded and cached_data is built,
\* stamped with time.time(); the paho thread runs one callback at a time
OnMessageFrom(devs) ==
    /\ callback = None
    /\ \E d \in devs, loc \in Locations :
         callback' = Some([dev_eui |-> d, timestamp |-> now, location |-> loc])
    /\ lookup' = NoLookup
    /\ UNCHANGED <<cache, uwb_cache, keys, confVars, readerVars, lifeVars, shutdownVars, sentVars, recoveryVars, uplinkVars, healthVars, cmdVars, resetVars, valVars, parserVars, now, sweep, mat, pubVars>>

\* an uplink of the tag D1 or of D3, which has no UWB id
OnMessage == OnMessageFrom({"D1", "D3"})

\* an uplink of the tag D1, which carries a UWB id
OnMessageMapped == OnMessageFrom({"D1"})

\* _on_message on an uplink with fields missing or null; the step leaves the
\* message in `uplink`.  An uplink the extraction fails on ends the call here.
OnUplink ==
    /\ callback = None
    /\ \E d \in {None} \cup {Some(e) : e \in DevEuis} :
         \E msg \in UplinksOf(d) :
           /\ callback' = Extract(msg, now)
           /\ uplink' = [msg |-> Some(msg), at |-> Some(now)]
    /\ lookup' = NoLookup
    /\ UNCHANGED <<cache, uwb_cache, keys, confVars, readerVars, lifeVars, shutdownVars, sentVars, recoveryVars, healthVars, cmdVars, resetVars, valVars, parserVars, now, sweep, mat, pubVars>>

\* _on_message from the lock on: with self._cache_lock the record is stored in
\* both indices, whatever the clock reads by then
OnMessageStore ==
    /\ callback # None /\ ~sweep.holding
    /\ cache' = Put(cache, callback[1].dev_eui, callback[1])
    /\ uwb_cache' = StoreUwb(uwb_cache, callback[1])
    /\ keys' = StoreKeys(keys, callback[1])
    /\ callback' = None
    /\ lookup' = NoLookup
    /\ UNCHANGED <<confVars, readerVars, lifeVars, shutdownVars, sentVars, recoveryVars, uplinkVars, healthVars, cmdVars, resetVars, valVars, parserVars, now, sweep, mat, pubVars>>

\* _cleanup_expired_entries takes self._cache_lock; what it has to examine is
\* what the two dictionaries hold, the lock keeps them as they are
SweepBegins ==
    /\ ~sweep.holding
    /\ sweep' = [NoSweep EXCEPT !.holding = TRUE, !.todo = SweepList(keys)]
    /\ UNCHANGED <<cache, uwb_cache, keys>>

\* one pass of one of the two loops: _is_data_valid reads the clock for the
\* entry and the key of an expired entry is appended to its list
SweepExamines ==
    /\ sweep.holding /\ sweep.todo # <<>>
    /\ LET entry == Head(sweep.todo)
           data == IF entry.index = "cache" THEN cache[entry.key]
                   ELSE uwb_cache[entry.key]
           expired == Expired(data, now)
       IN sweep' = [sweep EXCEPT
                       !.todo = Tail(@),
                       !.expired_dev_euis =
                           IF entry.index = "cache" /\ expired
                           THEN Append(@, entry.key) ELSE @,
                       !.expired_uwb_ids =
                           IF entry.index = "uwb_cache" /\ expired
                           THEN Append(@, entry.key) ELSE @,
                       !.examined = Append(@, [index |-> entry.index,
                                               key |-> entry.key, at |-> now])]
    /\ UNCHANGED <<cache, uwb_cache, keys>>

\* the two loops of del, the log line, and the lock is released
SweepRemoves ==
    /\ sweep.holding /\ sweep.todo = <<>>
    /\ LET dev_euis_left == Drop(cache, Members(sweep.expired_dev_euis))
           uwb_ids_left == SweepUwb(uwb_cache, sweep.expired_uwb_ids)
       IN /\ cache' = dev_euis_left
          /\ uwb_cache' = uwb_ids_left
          /\ keys' = [cache |-> KeysLeft(keys.cache, dev_euis_left),
                      uwb_cache |-> KeysLeft(keys.uwb_cache, uwb_ids_left)]
          /\ sweep' = [NoSweep EXCEPT
                          !.at = Some(now),
                          !.removed = sweep.expired_dev_euis # <<>>
                                      \/ sweep.expired_uwb_ids # <<>>,
                          !.overdue =
                              \/ \E d \in DOMAIN dev_euis_left :
                                    now - dev_euis_left[d].timestamp > Max(GpsTtl, SensorTtl)
                              \/ \E id \in DOMAIN uwb_ids_left :
                                    now - uwb_ids_left[id].timestamp > Max(GpsTtl, SensorTtl)]

CleanupExpiredEntries ==
    /\ SweepBegins
    /\ lookup' = NoLookup
    /\ UNCHANGED <<confVars, callbackVars, readerVars, lifeVars, shutdownVars, sentVars, recoveryVars, uplinkVars, healthVars, cmdVars, resetVars, valVars, parserVars, now, mat, pubVars>>

CleanupExamine ==
    /\ SweepExamines
    /\ lookup' = NoLookup
    /\ UNCHANGED <<confVars, callbackVars, readerVars, lifeVars, shutdownVars, sentVars, recoveryVars, uplinkVars, healthVars, cmdVars, resetVars, valVars, parserVars, now, mat, pubVars>>

CleanupRemove ==
    /\ SweepRemoves
    /\ lookup' = NoLookup
    /\ UNCHANGED <<confVars, callbackVars, readerVars, lifeVars, shutdownVars, sentVars, recoveryVars, uplinkVars, healthVars, cmdVars, resetVars, valVars, parserVars, now, mat, pubVars>>

\* a reader calls get_by_uwb_id
LookupUwbId ==
    /\ ~sweep.holding
    /\ \E id \in {NodeA, NodeB, NodeC}, ma \in {None, Some(1)}, chk \in BOOLEAN :
         lookup' = [by |-> "uwb_id", key |-> id, max_age |-> ma, check |-> chk,
                    at |-> now, result |-> get_by_uwb_id(uwb_cache, id, ma, chk, now)]
    /\ UNCHANGED <<confVars, callbackVars, readerVars, lifeVars, shutdownVars, sentVars, recoveryVars, uplinkVars, healthVars, cmdVars, resetVars, valVars, parserVars, now, cache, uwb_cache, keys, sweep, mat, pubVars>>

\* a reader calls get_by_dev_eui
LookupDevEui ==
    /\ ~sweep.holding
    /\ \E d \in DevEuis :
         lookup' = [by |-> "dev_eui", key |-> d, max_age |-> None, check |-> FALSE,
                    at |-> now, result |-> get_by_dev_eui(cache, d)]
    /\ UNCHANGED <<confVars, callbackVars, readerVars, lifeVars, shutdownVars, sentVars, recoveryVars, uplinkVars, healthVars, cmdVars, resetVars, valVars, parserVars, now, cache, uwb_cache, keys, sweep, mat, pubVars>>

(***************************************************************************)
(* convert_edges_to_network running beside the cache threads               *)
(***************************************************************************)
MatEdgeLists == { <<<<NodeA, NodeB, 5003>>>> }

MatStart ==
    /\ mat.pc = "idle"
    /\ \E el \in MatEdgeLists :
         mat' = [pc |-> "nodes", edge_list |-> el, todo |-> SortIds(EdgeIds(el)),
                 timestamp |-> now, uwbs |-> <<>>]
    /\ UNCHANGED <<confVars, callbackVars, readerVars, lifeVars, shutdownVars, sentVars, recoveryVars, uplinkVars, healthVars, cmdVars, resetVars, valVars, parserVars, now, cache, uwb_cache, keys, sweep, lookup, pubVars>>

MatNode ==
    /\ mat.pc = "nodes" /\ mat.todo # <<>> /\ ~sweep.holding
    /\ LET r == ResolveNode(Head(mat.todo), mat.timestamp, uwb_cache, now)
       IN mat' = [mat EXCEPT !.todo = Tail(@), !.timestamp = r.timestamp,
                             !.uwbs = Append(@, r.uwb)]
    /\ UNCHANGED <<confVars, callbackVars, readerVars, lifeVars, shutdownVars, sentVars, recoveryVars, uplinkVars, healthVars, cmdVars, resetVars, valVars, parserVars, now, cache, uwb_cache, keys, sweep, lookup, pubVars>>

\* the edges are attached and the network is returned to the caller
MatFinish ==
    /\ mat.pc = "nodes" /\ mat.todo = <<>>
    /\ AttachEdges(mat.uwbs, mat.edge_list) # <<>>
    /\ mat' = IdleMat
    /\ UNCHANGED <<confVars, callbackVars, readerVars, lifeVars, shutdownVars, sentVars, recoveryVars, uplinkVars, healthVars, cmdVars, resetVars, valVars, parserVars, now, cache, uwb_cache, keys, sweep, lookup, pubVars>>

(***************************************************************************)
(* Outbound publisher (UwbMqttClient.publish / publish_to_mqtt)            *)
(***************************************************************************)
\* setup() / setup_mqtt(), before the main loop reads: the client is created,
\* connect() is called and the client's loop thread started; the broker's
\* answer comes later, with ConnectionChange.  With --disable-mqtt no client.
MqttSetup ==
    /\ ~pub.client /\ ~args.disable_mqtt /\ fr = InitFr
    /\ pub' = [pub EXCEPT !.client = TRUE]
    /\ command' = NoCommand
    /\ UNCHANGED <<confVars, callbackVars, readerVars, lifeVars, shutdownVars, sentVars, recoveryVars, uplinkVars, healthVars, resetVars, valVars, parserVars, now, cacheVars>>

\* publish(): without a client, or disabled, it returns at once; otherwise
\* current_time = time.time(); time_since_last = current_time - last_publish_time
PublishStart ==
    /\ pub.pc = "idle" /\ Publishes(pub) /\ fr.pc # "publish"
    /\ pub' = Stamped(pub, now)
    /\ command' = NoCommand
    /\ UNCHANGED <<confVars, callbackVars, readerVars, lifeVars, shutdownVars, sentVars, recoveryVars, uplinkVars, healthVars, resetVars, valVars, parserVars, now, cacheVars>>

\* with rate_limit_lock: rate_limit = self.rate_limit
PublishSample ==
    /\ pub.pc = "stamped" /\ fr.pc # "publish"
    /\ pub' = Sampled(pub)
    /\ command' = NoCommand
    /\ UNCHANGED <<confVars, callbackVars, readerVars, lifeVars, shutdownVars, sentVars, recoveryVars, uplinkVars, healthVars, resetVars, valVars, parserVars, now, cacheVars>>

\* the rest of publish: the rate test, is_connected, client.publish and its rc
PublishSend ==
    /\ pub.pc = "sampled" /\ fr.pc # "publish"
    /\ \E ok \in BOOLEAN : pub' = Decided(pub, ok)
    /\ command' = NoCommand
    /\ UNCHANGED <<confVars, callbackVars, readerVars, lifeVars, shutdownVars, sentVars, recoveryVars, uplinkVars, healthVars, resetVars, valVars, parserVars, now, cacheVars>>

(***************************************************************************)
(* Actions of the command callback                                         *)
(***************************************************************************)
\* a command arrives on the command topic; the step leaves it in `command`
OnCommand(payload) ==
    /\ pub.client
    /\ LET done == Written(CommandsRead[payload], pub.rate_limit)
       IN /\ pub' = [pub EXCEPT !.rate_limit = done.rate_limit]
          /\ command' = [payload |-> payload, log |-> done.log]
    /\ UNCHANGED <<confVars, callbackVars, readerVars, lifeVars, shutdownVars, sentVars, recoveryVars, uplinkVars, healthVars, resetVars, valVars, parserVars, now, cacheVars>>

OnCommandLogged == \E payload \in CommandPayloads : OnCommand(payload)

\* the same callback, the payload and the log line not kept
OnCommandSetRate ==
    /\ pub.client
    /\ \E payload \in CommandPayloads :
         pub' = [pub EXCEPT !.rate_limit = Written(CommandsRead[payload], @).rate_limit]
    /\ command' = NoCommand
    /\ UNCHANGED <<confVars, callbackVars, readerVars, lifeVars, shutdownVars, sentVars, recoveryVars, uplinkVars, healthVars, resetVars, valVars, parserVars, now, cacheVars>>

\* the client's connection comes and goes
ConnectionChange ==
    /\ pub.client
    /\ pub' = [pub EXCEPT !.connected = ~@]
    /\ command' = NoCommand
    /\ UNCHANGED <<confVars, callbackVars, readerVars, lifeVars, shutdownVars, sentVars, recoveryVars, uplinkVars, healthVars, resetVars, valVars, parserVars, now, cacheVars>>

(***************************************************************************)
(* The main loop on a line of malformed packets, with the clock running    *)
(***************************************************************************)
InitRecover ==
    /\ stream \in RecoverStreams /\ arrived = 0 /\ pieces = 0
    /\ fr = InitFr /\ network = None
    /\ anchor_map = NoAnchors /\ args = Args(TRUE, TRUE)
    /\ now = StartTime /\ InitCacheIdle /\ InitPubIdle /\ InitCallbackIdle /\ InitReaderIdle /\ InitLifecycleIdle /\ InitShutdownIdle /\ InitSentIdle /\ InitRecoveryIdle /\ InitUplinkIdle /\ InitHealthIdle /\ InitCommandIdle /\ InitResetIdle /\ InitValIdle

(***************************************************************************)
(* The validator                                                           *)
(***************************************************************************)
InitValidate ==
    /\ now = StartTime /\ InitCacheIdle /\ InitParserIdle /\ InitPubIdle /\ InitCallbackIdle /\ InitReaderIdle /\ InitLifecycleIdle /\ InitShutdownIdle /\ InitSentIdle /\ InitRecoveryIdle /\ InitUplinkIdle /\ InitHealthIdle /\ InitCommandIdle /\ InitResetIdle
    /\ InitConfAnchored
    /\ validator \in Validators

\* a caller hands an edge list to validate_edge_list
ValidateEdgeList ==
    /\ validator.total_validated < MaxValidated
    /\ \E edge_list \in ValEdgeLists :
         validator' = [validate_edge_list(edge_list,
                                    [validator EXCEPT !.edge_list = edge_list,
                                                !.valid_edges = <<>>,
                                                !.validation_failures = <<>>])
                 EXCEPT !.calls = 1]
    /\ UNCHANGED <<confVars, callbackVars, readerVars, lifeVars, shutdownVars, sentVars, recoveryVars, uplinkVars, healthVars, cmdVars, resetVars, parserVars, now, cacheVars, pubVars>>

(***************************************************************************)
(* Specifications                                                          *)
(***************************************************************************)
NextParse == ReadByte \/ ReadPayload \/ ResetDevice
SpecParse == InitParse /\ [][NextParse]_vars

NextFrame == Arrive \/ ReadByte \/ ReadPayload \/ ResetDevice
SpecFrame == InitFrame /\ [][NextFrame]_vars

NextCache ==
    \/ Tick \/ OnMessage \/ OnMessageStore \/ LookupUwbId \/ LookupDevEui
    \/ CleanupExpiredEntries \/ CleanupExamine \/ CleanupRemove
SpecCache == InitCache /\ [][NextCache]_vars

NextMat ==
    \/ Tick \/ OnMessageMapped \/ OnMessageStore
    \/ CleanupExpiredEntries \/ CleanupExamine \/ CleanupRemove
    \/ MatStart \/ MatNode \/ MatFinish
SpecMat == InitCache /\ [][NextMat]_vars

NextPub ==
    \/ MqttSetup \/ Tick \/ PublishStart \/ PublishSample \/ PublishSend
    \/ OnCommandSetRate \/ ConnectionChange
SpecPub == InitPub /\ [][NextPub]_vars

\* the publisher with the commands it handles on record, the clock standing
InitCommand == InitPub
NextCommand ==
    \/ MqttSetup \/ ConnectionChange
    \/ OnCommandLogged \/ PublishStart \/ PublishSample \/ PublishSend
SpecCommand == InitCommand /\ [][NextCommand]_vars

\* Scenario F: the default rate limit, one publish done, then 'set rate_limit 2'
InitScenarioF ==
    /\ now = StartTime /\ InitCacheIdle /\ InitParserIdle /\ InitResetIdle /\ InitValIdle
    /\ InitCommandIdle /\ InitHealthIdle /\ InitUplinkIdle /\ InitRecoveryIdle /\ InitSentIdle /\ InitShutdownIdle /\ InitConfAnchored
    /\ InitLifecycleIdle /\ InitReaderIdle /\ InitCallbackIdle
    /\ pub = [InitPubRec EXCEPT !.rate_limit = Seconds(DEFAULT_MQTT_RATE_LIMIT),
                                !.last_publish_time = StartTime,
                                !.current_time = StartTime,
                                !.time_since_last = StartTime,
                                !.rate_sample = Seconds(DEFAULT_MQTT_RATE_LIMIT),
                                !.last_rate = Seconds(DEFAULT_MQTT_RATE_LIMIT),
                                !.client = TRUE, !.connected = TRUE,
                                !.count = 1]
ScenarioFCommand == OnCommand(SetRateLimit(2))
NextScenarioF ==
    \/ Tick \/ PublishStart \/ PublishSample \/ PublishSend
    \/ ScenarioFCommand \/ ConnectionChange
SpecScenarioF == InitScenarioF /\ [][NextScenarioF]_vars

\* the health monitor asked for its status
InitHealth ==
    /\ InitCacheIdle /\ InitParserIdle /\ InitPubIdle /\ InitCallbackIdle /\ InitReaderIdle /\ InitLifecycleIdle /\ InitShutdownIdle /\ InitSentIdle /\ InitRecoveryIdle /\ InitUplinkIdle /\ InitCommandIdle /\ InitResetIdle
    /\ InitValIdle /\ InitConfAnchored
    /\ \E uptime \in HealthUptimes :
         /\ now = StartTime + uptime
         /\ health \in HealthMonitors(StartTime, StartTime + uptime)

GetHealthStatus ==
    /\ health.calls = 0
    /\ health' = get_health_status(health, now)
    /\ UNCHANGED <<confVars, callbackVars, readerVars, lifeVars, shutdownVars, sentVars, recoveryVars, uplinkVars, cmdVars, resetVars, valVars, parserVars, now, cacheVars, pubVars>>

NextHealth == GetHealthStatus
SpecHealth == InitHealth /\ [][NextHealth]_vars

\* the subscriber alone, on uplinks with fields missing or null
InitIngest == InitCache
NextIngest == OnUplink \/ OnMessageStore
SpecIngest == InitIngest /\ [][NextIngest]_vars

\* an Assignment and Distance packets on the line, the publisher behind them
PublishStreams ==
    {Concat(q) : q \in UNION {[1..n ->
        { AssignmentFrame(0, <<46291>>, <<47498>>, <<46321>>),
          DistanceFrame(<<1066, 1066, 1066>>, <<>>),
          DistanceFrame(<<0, 1, 63960>>, <<>>),
          DistanceFrame(<<1066, 2132, 0>>, <<>>) }] : n \in 0..(MaxItems + 1)}}

InitPublishEdges ==
    /\ stream \in PublishStreams /\ arrived = Len(stream) /\ pieces = 1
    /\ fr = InitFr /\ network = None
    /\ anchor_map = NoAnchors /\ args \in {Args(c, FALSE) : c \in BOOLEAN}
    /\ now = StartTime /\ InitCacheIdle /\ InitPubIdle /\ InitCallbackIdle /\ InitReaderIdle /\ InitLifecycleIdle /\ InitShutdownIdle /\ InitSentIdle /\ InitRecoveryIdle /\ InitUplinkIdle /\ InitHealthIdle /\ InitCommandIdle /\ InitResetIdle /\ InitValIdle

NextPublishEdges ==
    \/ MqttSetup \/ ReadByte \/ ReadPayload \/ Tick \/ ConnectionChange
    \/ PublishToMqttStamp \/ PublishToMqttSample \/ PublishToMqttSend
    \/ ResetDevice
SpecPublishEdges == InitPublishEdges /\ [][NextPublishEdges]_vars

\* whole and truncated packets on the line: an Assignment of three nodes, one
\* of four with a zero id (a node whose id the next Distance packet is to
\* bring), one cut inside its group data, payloads of no and of three octets,
\* Distance packets with one of the three values, with none, and with all three
TruncatedItems ==
    { AssignmentFrame(0, <<46291>>, <<47498>>, <<46321>>),
      AssignmentFrame(0, <<46291>>, <<47498>>, <<46321, 0>>),
      Frame(<<PACKET_TYPE_ASSIGNMENT, 0, 0, 0, 0, 0, 1, 1, 1>> \o LE16(46291)),
      ShortFrame,
      Frame(<<PACKET_TYPE_DISTANCE, 0, 0>>),
      DistanceFrame(<<1066>>, <<>>),
      DistanceFrame(<<>>, <<>>),
      DistanceFrame(<<1066, 1066, 1066>>, <<>>) }

TruncatedStreams ==
    {Concat(q) : q \in UNION {[1..n -> TruncatedItems] : n \in 0..(MaxItems + 1)}}

InitTruncated ==
    /\ stream \in TruncatedStreams /\ arrived = Len(stream) /\ pieces = 1
    /\ fr = InitFr /\ network = None
    /\ InitArgsNoAnchors
    /\ now = StartTime /\ InitCacheIdle /\ InitPubIdle /\ InitCallbackIdle /\ InitReaderIdle /\ InitLifecycleIdle /\ InitShutdownIdle /\ InitSentIdle /\ InitRecoveryIdle /\ InitUplinkIdle /\ InitHealthIdle /\ InitCommandIdle /\ InitResetIdle /\ InitValIdle

SpecTruncated == InitTruncated /\ [][NextParse]_vars

\* an Assignment or none, a run of malformed packets, then Distance and
\* Assignment packets, arriving in pieces
HeldStreams ==
    { a \o Concat(Tab(e, LAMBDA i : bad)) \o d \o a2 \o d2 :
        a \in {<<>>, AssignmentFrame(0, <<46291>>, <<47498>>, <<46321>>)},
        e \in 0..MaxErrRun,
        bad \in {ShortFrame,
                 Frame(<<PACKET_TYPE_ASSIGNMENT, 0, 0, 0, 0, 0, 1, 1, 1>> \o LE16(46291))},
        d \in {<<>>, DistanceFrame(<<1066, 1066, 1066>>, <<>>)},
        a2 \in {<<>>, AssignmentFrame(0, <<46500>>, <<47498>>, <<46321>>)},
        d2 \in {<<>>, DistanceFrame(<<2132, 1066, 2132>>, <<>>)} }

InitHeld ==
    /\ stream \in HeldStreams /\ arrived = 0 /\ pieces = 0
    /\ fr = InitFr /\ network = None
    /\ anchor_map = NoAnchors /\ args = Args(TRUE, TRUE)
    /\ now = StartTime /\ InitCacheIdle /\ InitPubIdle /\ InitCallbackIdle /\ InitReaderIdle /\ InitLifecycleIdle /\ InitShutdownIdle /\ InitSentIdle /\ InitRecoveryIdle /\ InitUplinkIdle /\ InitHealthIdle /\ InitCommandIdle /\ InitResetIdle /\ InitValIdle

SpecHeld == InitHeld /\ [][NextFrame]_vars

\* an Assignment of n1, n2 and n3 nodes in the given mode, then a Distance
\* packet with the values it calls for: all different, or with a zero among
\* them, or with one value too many
PairAssignment(mode, n1, n2, n3) ==
    AssignmentFrame(mode, Tab(n1, LAMBDA i : 46290 + i), Tab(n2, LAMBDA i : 47497 + i),
                    Tab(n3, LAMBDA i : 46320 + i))

PairValues(mode, n1, n2, n3) ==
    LET n == n1 * n2 + n1 * n3 + n2 * n3
             + (IF ModeBit(mode, 1) THEN (n1 * (n1 - 1)) \div 2 ELSE 0)
             + (IF ModeBit(mode, 2) THEN (n2 * (n2 - 1)) \div 2 ELSE 0)
        all == Tab(n, LAMBDA k : 1000 + k)
    IN {all, Append(all, 2000), Tab(n, LAMBDA k : IF k = 2 THEN 0 ELSE 1000 + k)}

PairStreams ==
    UNION { {PairAssignment(mode, n1, n2, n3) \o DistanceFrame(values, <<>>) :
               values \in PairValues(mode, n1, n2, n3)} :
            mode \in 0..3, n1 \in 1..MaxGroup, n2 \in 1..MaxGroup, n3 \in 0..1 }

InitPairs ==
    /\ stream \in PairStreams /\ arrived = Len(stream) /\ pieces = 1
    /\ fr = InitFr /\ network = None
    /\ InitArgsNoAnchors
    /\ now = StartTime /\ InitCacheIdle /\ InitPubIdle /\ InitCallbackIdle /\ InitReaderIdle /\ InitLifecycleIdle /\ InitShutdownIdle /\ InitSentIdle /\ InitRecoveryIdle /\ InitUplinkIdle /\ InitHealthIdle /\ InitCommandIdle /\ InitResetIdle /\ InitValIdle

\* whole packets only: no parsing error, so reset(ser) is never entered
NextPairs == ReadByte \/ ReadPayload
SpecPairs == InitPairs /\ [][NextPairs]_vars

(***************************************************************************)
(* Shutdown: the KeyboardInterrupt handler of the main script and          *)
(* LoraTagDataCache.stop                                                   *)
(***************************************************************************)
JOIN_TIMEOUT == 5   \* self._thread.join(timeout=5)

handler_order_serial_first == <<"serial", "cache", "mqtt", "exit">>

\* the handler, top to bottom
handler_order == <<"cache", "mqtt", "serial", "exit">>

\* if lora_cache: ... if mqtt_client: ...
Applicable(sd, name) ==
    /\ name = "cache" => sd.lora_cache
    /\ name = "mqtt" => sd.mqtt_client

NextHandlerStep(sd, i) ==
    LET later == {j \in (i + 1)..Len(handler_order) : Applicable(sd, handler_order[j])}
    IN IF later = {} THEN Len(handler_order) + 1
       ELSE CHOOSE j \in later : \A k \in later : j <= k

AtHandlerStep(name) ==
    /\ shutdown.pos \in 1..Len(handler_order)
    /\ handler_order[shutdown.pos] = name

Advance(sd) ==
    LET j == NextHandlerStep(sd, sd.pos)
    IN [sd EXCEPT !.pos = j,
                  !.phase = IF j <= Len(handler_order) /\ handler_order[j] = "cache"
                            THEN "flags" ELSE "none"]

\* the cache's threads were started with the cache, and the _run thread has
\* still to make the cache's client; the publisher has its MQTT client or
\* setup_mqtt returned None
InitShutdown ==
    /\ now = StartTime /\ InitCacheIdle /\ InitParserIdle /\ InitPubIdle /\ InitCallbackIdle /\ InitReaderIdle /\ InitLifecycleIdle /\ InitConfAnchored
    /\ InitSentIdle /\ InitRecoveryIdle /\ InitUplinkIdle /\ InitHealthIdle /\ InitCommandIdle /\ InitResetIdle /\ InitValIdle
    /\ \E enabled \in BOOLEAN, client \in BOOLEAN :
         shutdown = [NoShutdown EXCEPT !.lora_cache = enabled, !.mqtt_client = client,
                                       !.thread_alive = enabled,
                                       !.cleanup_alive = enabled]

\* except KeyboardInterrupt:
KeyboardInterrupt ==
    /\ shutdown.pos = 0
    /\ shutdown' = Advance(shutdown)
    /\ UNCHANGED <<confVars, callbackVars, readerVars, lifeVars, sentVars, recoveryVars, uplinkVars, healthVars, cmdVars, resetVars, valVars, parserVars, now, cacheVars, pubVars>>

\* _run, first statement: self.mqtt_client = mqtt.Client(...)
RunMakesClient ==
    /\ shutdown.thread_alive /\ ~shutdown.cache_client
    /\ shutdown.exit_code = None
    /\ shutdown' = [shutdown EXCEPT !.cache_client = TRUE]
    /\ UNCHANGED <<confVars, callbackVars, readerVars, lifeVars, sentVars, recoveryVars, uplinkVars, healthVars, cmdVars, resetVars, valVars, parserVars, now, cacheVars, pubVars>>

\* stop(): both flags cleared and, if self.mqtt_client: the inbound client's
\* loop stopped and the client disconnected
CacheStop ==
    /\ AtHandlerStep("cache") /\ shutdown.phase = "flags"
    /\ shutdown' = [shutdown EXCEPT !.phase = "join_thread", !.waited = 0,
                       !.steps = IF shutdown.cache_client
                                 THEN @ \o <<"cache_loop_stop", "cache_disconnect">>
                                 ELSE @]
    /\ UNCHANGED <<confVars, callbackVars, readerVars, lifeVars, sentVars, recoveryVars, uplinkVars, healthVars, cmdVars, resetVars, valVars, parserVars, now, cacheVars, pubVars>>

JoinedAlive(sd) ==
    IF sd.phase = "join_thread" THEN sd.thread_alive ELSE sd.cleanup_alive

\* a second passes inside join(timeout=5)
JoinWait ==
    /\ AtHandlerStep("cache") /\ shutdown.phase \in {"join_thread", "join_cleanup"}
    /\ JoinedAlive(shutdown) /\ shutdown.waited < JOIN_TIMEOUT
    /\ shutdown' = [shutdown EXCEPT !.waited = @ + 1]
    /\ UNCHANGED <<confVars, callbackVars, readerVars, lifeVars, sentVars, recoveryVars, uplinkVars, healthVars, cmdVars, resetVars, valVars, parserVars, now, cacheVars, pubVars>>

\* join returns: the thread has ended or the timeout has run out
JoinReturn ==
    /\ AtHandlerStep("cache") /\ shutdown.phase \in {"join_thread", "join_cleanup"}
    /\ ~JoinedAlive(shutdown) \/ shutdown.waited = JOIN_TIMEOUT
    /\ shutdown' =
         IF shutdown.phase = "join_thread"
         THEN [shutdown EXCEPT !.phase = "join_cleanup", !.waited = 0,
                               !.join_waits = Append(@, shutdown.waited),
                               !.steps = Append(@, "join_thread")]
         ELSE [Advance(shutdown) EXCEPT
                               !.waited = 0,
                               !.join_waits = Append(@, shutdown.waited),
                               !.steps = @ \o <<"join_cleanup", "cache_stopped">>]
    /\ UNCHANGED <<confVars, callbackVars, readerVars, lifeVars, sentVars, recoveryVars, uplinkVars, healthVars, cmdVars, resetVars, valVars, parserVars, now, cacheVars, pubVars>>

\* _run or _cleanup_loop comes to its end
ThreadEnds ==
    /\ shutdown.exit_code = None
    /\ \/ shutdown.thread_alive /\ shutdown' = [shutdown EXCEPT !.thread_alive = FALSE]
       \/ shutdown.cleanup_alive /\ shutdown' = [shutdown EXCEPT !.cleanup_alive = FALSE]
    /\ UNCHANGED <<confVars, callbackVars, readerVars, lifeVars, sentVars, recoveryVars, uplinkVars, healthVars, cmdVars, resetVars, valVars, parserVars, now, cacheVars, pubVars>>

\* mqtt_client.loop_stop(); mqtt_client.disconnect()
MqttStop ==
    /\ AtHandlerStep("mqtt")
    /\ shutdown' = [Advance(shutdown) EXCEPT
                       !.steps = @ \o <<"mqtt_loop_stop", "mqtt_disconnect">>]
    /\ UNCHANGED <<confVars, callbackVars, readerVars, lifeVars, sentVars, recoveryVars, uplinkVars, healthVars, cmdVars, resetVars, valVars, parserVars, now, cacheVars, pubVars>>

\* disconnect(ser)
SerialClose ==
    /\ AtHandlerStep("serial")
    /\ shutdown' = [Advance(shutdown) EXCEPT !.steps = Append(@, "serial_close")]
    /\ UNCHANGED <<confVars, callbackVars, readerVars, lifeVars, sentVars, recoveryVars, uplinkVars, healthVars, cmdVars, resetVars, valVars, parserVars, now, cacheVars, pubVars>>

\* sys.exit(0)
SysExit ==
    /\ AtHandlerStep("exit")
    /\ shutdown' = [Advance(shutdown) EXCEPT !.steps = Append(@, "exit"),
                                             !.exit_code = Some(0)]
    /\ UNCHANGED <<confVars, callbackVars, readerVars, lifeVars, sentVars, recoveryVars, uplinkVars, healthVars, cmdVars, resetVars, valVars, parserVars, now, cacheVars, pubVars>>

NextShutdown ==
    \/ KeyboardInterrupt \/ RunMakesClient \/ CacheStop \/ JoinWait \/ JoinReturn
    \/ ThreadEnds
    \/ MqttStop \/ SerialClose \/ SysExit
SpecShutdown == InitShutdown /\ [][NextShutdown]_vars

\* an ErrorRecovery with the clock running: resets recorded, backoff asked for
InitBackoff == InitPub

Elapse ==
    /\ now < StartTime + MaxBackoffClock
    /\ now' = now + 1
    /\ recovery' = [recovery EXCEPT !.last = NoOp]
    /\ UNCHANGED <<confVars, callbackVars, readerVars, lifeVars, shutdownVars, sentVars, uplinkVars, healthVars, cmdVars, resetVars, valVars, parserVars, cacheVars, pubVars>>

ShouldResetWithBackoff ==
    /\ recovery' = [recovery EXCEPT !.last =
                       [op |-> "should_reset_with_backoff", error_type |-> "none",
                        result |-> should_reset_with_backoff(recovery, now)]]
    /\ UNCHANGED <<confVars, callbackVars, readerVars, lifeVars, shutdownVars, sentVars, uplinkVars, healthVars, cmdVars, resetVars, valVars, parserVars, now, cacheVars, pubVars>>

RecordReset ==
    /\ recovery.reset_count < MaxResets
    /\ recovery' = record_reset(recovery, now)
    /\ UNCHANGED <<confVars, callbackVars, readerVars, lifeVars, shutdownVars, sentVars, uplinkVars, healthVars, cmdVars, resetVars, valVars, parserVars, now, cacheVars, pubVars>>

NextBackoff == Elapse \/ ShouldResetWithBackoff \/ RecordReset
SpecBackoff == InitBackoff /\ [][NextBackoff]_vars

\* an ErrorRecovery on errors of the four classes
InitErrors ==
    /\ now = StartTime /\ InitCacheIdle /\ InitParserIdle /\ InitPubIdle /\ InitCallbackIdle /\ InitReaderIdle /\ InitLifecycleIdle /\ InitShutdownIdle /\ InitSentIdle /\ InitConfAnchored
    /\ InitUplinkIdle /\ InitHealthIdle /\ InitCommandIdle /\ InitResetIdle /\ InitValIdle
    /\ \E p \in ErrorThresholds, c \in ErrorThresholds :
         recovery = NewErrorRecovery(p, c)

RecordError ==
    /\ \E error_type \in ErrorTypes :
         /\ recovery.error_counts[error_type] < MaxErrCount
         /\ recovery' = record_error(recovery, error_type)
    /\ UNCHANGED <<confVars, callbackVars, readerVars, lifeVars, shutdownVars, sentVars, uplinkVars, healthVars, cmdVars, resetVars, valVars, parserVars, now, cacheVars, pubVars>>

ResetErrorCounts ==
    /\ \E error_type \in ErrorTypes \cup {"none"} :
         recovery' = reset_error_counts(recovery, error_type)
    /\ UNCHANGED <<confVars, callbackVars, readerVars, lifeVars, shutdownVars, sentVars, uplinkVars, healthVars, cmdVars, resetVars, valVars, parserVars, now, cacheVars, pubVars>>

NextErrors == RecordError \/ ResetErrorCounts \/ RecordReset
SpecErrors == InitErrors /\ [][NextErrors]_vars

(***************************************************************************)
(* convert_edges_to_network with telemetry and a DataValidator             *)
(* (uwb_network_converter.py, uwb_data_validator.py); degrees are whole    *)
(***************************************************************************)
min_latitude == -90
max_latitude == 90
min_longitude == -180
max_longitude == 180

\* the DataValidator a converter is built with: its GPS switch and the
\* gps_rejected entry of validation_stats
NewGpsValidator(reject_zero_gps) ==
    [reject_zero_gps |-> reject_zero_gps, gps_rejected |-> 0]

\* validate_gps_coordinates: the result (the statistics are counted by
\* MaterialiseNode below)
validate_gps_coordinates(dv, latitude, longitude) ==
    IF dv.reject_zero_gps /\ latitude = 0 /\ longitude = 0
    THEN ValidationResult(FALSE, Some([text |-> "GPS coordinates are 0,0"]))
    ELSE IF latitude < min_latitude \/ latitude > max_latitude
    THEN ValidationResult(FALSE, Some([text |-> "Latitude outside valid range"]))
    ELSE IF longitude < min_longitude \/ longitude > max_longitude
    THEN ValidationResult(FALSE, Some([text |-> "Longitude outside valid range"]))
    ELSE ValidationResult(TRUE, None)

\* dict.get(key): None when the key is missing
Get(dict, key) == IF key \in DOMAIN dict THEN dict[key] ELSE None

\* a stored location as _on_message builds it from locations["frm-payload"]
TagLocation(latitude, longitude) ==
    [present |-> TRUE, latitude |-> Some(latitude), longitude |-> Some(longitude),
     altitude |-> Some(50), accuracy |-> Some(5), source |-> Some("frm-payload")]

\* no location; a position in range; the equator; (0, 0); a latitude and a
\* longitude out of range
ConvertLocations ==
    { NoLocation, TagLocation(51, 1), TagLocation(0, 1), TagLocation(0, 0),
      TagLocation(91, 1), TagLocation(51, 181) }

\* cached_data of an uplink with battery 85 in its decoded payload
TagRecord(d, timestamp, location) ==
    [dev_eui |-> d, timestamp |-> timestamp, location |-> location,
     decoded_payload |-> [battery |-> 85]]

\* f"{uwb['positionSource']},lora_{location['source']}", by its parts
PositionSourceBoth(position_source, source) == <<position_source, ",lora_", source>>

\* lat_lon_alt with the LoRa coordinates preferred to the anchor's
lat_lon_alt_lora_first(is_anchor, anchor_position, from_lora, loc) ==
    IF from_lora \/ (loc.present /\ is_anchor)
    THEN <<loc.latitude, loc.longitude, loc.altitude>>
    ELSE IF is_anchor THEN anchor_position
    ELSE <<Some(0), Some(0), Some(0)>>

\* lat_lon_alt when the node document is built
lat_lon_alt(is_anchor, anchor_position, from_lora, loc) ==
    IF is_anchor THEN anchor_position
    ELSE IF from_lora THEN <<loc.latitude, loc.longitude, loc.altitude>>
    ELSE <<Some(0), Some(0), Some(0)>>

\* lines 186-192: the validator's answer on the record found for a node that
\* is no anchor and has latitude and longitude; no validator, no refusal
GpsResult(dv, is_anchor, found) ==
    IF ~is_anchor /\ found # None /\ dv # None /\ HasGps(found[1])
    THEN validate_gps_coordinates(dv[1], found[1].location.latitude[1],
                                  found[1].location.longitude[1])
    ELSE ValidationResult(TRUE, None)

\* lines 236-237 and 271-277: positionSource, None when the key is not set
PositionSource(is_anchor, source) ==
    IF is_anchor
    THEN IF source # None THEN Some(PositionSourceBoth("anchor_config", source[1]))
         ELSE Some(<<"anchor_config">>)
    ELSE IF source # None THEN Some(<<source[1]>>) ELSE None

\* lines 224-310: the node document built from lora_data (None or the record)
NodeDocument(uwb_id, is_anchor, from_lora, lora_data, timestamp) ==
    [id |-> uwb_id,
     latLonAlt |-> lat_lon_alt(is_anchor,
                               IF is_anchor THEN AnchorPosition(uwb_id)
                               ELSE <<Some(0), Some(0), Some(0)>>,
                               from_lora,
                               IF lora_data # None THEN lora_data[1].location
                               ELSE NoLocation),
     positionKnown |-> is_anchor \/ from_lora,
     lastPositionUpdateTime |-> timestamp,
     positionSource |->
        PositionSource(is_anchor,
                       IF lora_data # None THEN Get(lora_data[1].location, "source")
                       ELSE None),
     positionAccuracy |->
        IF lora_data # None /\ Get(lora_data[1].location, "accuracy") # None
        THEN lora_data[1].location.accuracy[1] ELSE 0,
     battery |->
        IF lora_data # None /\ Get(lora_data[1], "decoded_payload") # None
           /\ "battery" \in DOMAIN lora_data[1].decoded_payload
        THEN Some(lora_data[1].decoded_payload.battery) ELSE None,
     loraDataTimestamp |-> IF lora_data # None /\ lora_data[1].timestamp # 0
                           THEN Some(lora_data[1].timestamp) ELSE None,
     edges |-> <<>>]

\* lines 204-213: the local timestamp after a pass that took the position of
\* the record found
TimestampAfter(from_lora, found, timestamp) ==
    IF from_lora /\ found[1].timestamp # 0 THEN found[1].timestamp ELSE timestamp

\* One pass of the loop over sorted_ids with self.data_validator = dv (None
\* or the validator): the node document, the local timestamp afterwards, the
\* validator afterwards, and whether the pass raised.  After a refusal
\* lora_data is None and lora_data.get("timestamp") raises AttributeError.
MaterialiseFound(uwb_id, timestamp, dv, is_anchor, found, is_valid) ==
    [raised |-> ~is_valid,
     timestamp |-> TimestampAfter(~is_anchor /\ is_valid /\ found # None /\ HasGps(found[1]),
                                  found, timestamp),
     data_validator |-> IF is_valid THEN dv
                        ELSE Some([dv[1] EXCEPT !.gps_rejected = @ + 1]),
     uwb |-> NodeDocument(uwb_id, is_anchor,
                          ~is_anchor /\ is_valid /\ found # None /\ HasGps(found[1]),
                          IF is_valid THEN found ELSE None,
                          TimestampAfter(~is_anchor /\ is_valid /\ found # None
                                            /\ HasGps(found[1]),
                                         found, timestamp))]

MaterialiseNode(uwb_id, timestamp, k, t, dv) ==
    MaterialiseFound(uwb_id, timestamp, dv, uwb_id \in AnchorIds,
                     get_by_uwb_id(k, uwb_id, None, TRUE, t),
                     GpsResult(dv, uwb_id \in AnchorIds,
                               get_by_uwb_id(k, uwb_id, None, TRUE, t)).is_valid)

\* the locations of the uplinks that arrive while the converter runs, and of the
\* records of D2
UplinkLocations == { NoLocation, TagLocation(51, 1) }

\* the clock when the converter's caller comes to its first call
ConvertTime == MaxTime - 1

\* what the two indices hold by then: a record of the tag D1 and one of D2,
\* new or Horizon - 1 seconds old (the clock has one more second to go), or
\* none; that of D2 is without a location or with a position in range
TagRecordsOf(d) ==
    {None} \cup {Some(TagRecord(d, ConvertTime - age, loc)) :
                    age \in {0, Horizon - 1},
                    loc \in (IF d = "D1" THEN ConvertLocations ELSE UplinkLocations)}

CacheOf(r1, r2) ==
    [d \in {e \in {"D1", "D2"} : (IF e = "D1" THEN r1 ELSE r2) # None} |->
        (IF d = "D1" THEN r1 ELSE r2)[1]]

UwbCacheOf(r1, r2) ==
    [id \in {DevEuiToUwbId(d)[1] : d \in DOMAIN CacheOf(r1, r2)} |->
        IF id = NodeA THEN r1[1] ELSE r2[1]]

ConvertEdgeLists ==
    { <<<<NodeA, NodeB, 5003>>>>,
      <<<<NodeA, NodeC, 5003>>, <<NodeC, NodeB, 1000>>>> }

\* mat of a converter with data_validator dv that has not been called yet.
\* passed is the timestamp argument of the call in progress (timestamp is the
\* local variable the loop assigns to); looked has, for each pass of the loop,
\* the id, the clock reading of its get_by_uwb_id and the entry _uwb_cache
\* held for the id then; uplinks and sweeps count what the cache's threads
\* have done beside the converter.
NewConverter(dv) ==
    [pc |-> "idle", edge_list |-> <<>>, todo |-> <<>>, timestamp |-> 0, passed |-> 0,
     uwbs |-> <<>>, looked |-> <<>>, data_validator |-> dv, calls |-> 0,
     uplinks |-> 0, sweeps |-> 0]

InitConvert ==
    /\ now = ConvertTime /\ InitParserIdle /\ InitPubIdle /\ InitCallbackIdle /\ InitReaderIdle /\ InitLifecycleIdle /\ InitShutdownIdle /\ InitSentIdle
    /\ InitRecoveryIdle /\ InitUplinkIdle /\ InitHealthIdle /\ InitCommandIdle
    /\ InitResetIdle /\ InitValIdle
    /\ anchor_map \in AnchorMaps /\ args = Args(TRUE, FALSE)
    /\ sweep = NoSweep /\ lookup = NoLookup
    /\ \E r1 \in TagRecordsOf("D1"), r2 \in TagRecordsOf("D2") :
         /\ cache = CacheOf(r1, r2) /\ uwb_cache = UwbCacheOf(r1, r2)
         /\ keys = [cache |-> KeysLeft(<<"D1", "D2">>, CacheOf(r1, r2)),
                    uwb_cache |-> KeysLeft(<<NodeA, NodeB>>, UwbCacheOf(r1, r2))]
    /\ \E dv \in {None, Some(NewGpsValidator(TRUE)), Some(NewGpsValidator(FALSE))} :
         mat = NewConverter(dv)

\* the caller reads the clock and calls
\* convert_edges_to_network(edge_list, timestamp=time.time()): sorted_ids
ConvertStart ==
    /\ mat.pc \in {"idle", "returned", "raised"} /\ mat.calls < MaxConversions
    /\ \E el \in ConvertEdgeLists :
         mat' = [mat EXCEPT !.pc = "nodes", !.edge_list = el,
                            !.todo = SortIds(EdgeIds(el)),
                            !.timestamp = now, !.passed = now,
                            !.uwbs = <<>>, !.looked = <<>>, !.calls = @ + 1]
    /\ UNCHANGED <<network, confVars, callbackVars, readerVars, lifeVars, shutdownVars, sentVars, recoveryVars, uplinkVars, healthVars, cmdVars, resetVars, valVars, stream, arrived, pieces, fr, now, cache, uwb_cache, keys, sweep, lookup, pubVars>>

\* one pass of the loop over sorted_ids: get_by_uwb_id takes the cache lock
\* and reads the clock, the validator is asked and the node document built;
\* a pass that raises leaves the call
ConvertNode ==
    /\ mat.pc = "nodes" /\ mat.todo # <<>> /\ ~sweep.holding
    /\ LET uwb_id == Head(mat.todo)
           r == MaterialiseNode(uwb_id, mat.timestamp, uwb_cache, now, mat.data_validator)
           seen == [id |-> uwb_id, at |-> now,
                    held |-> IF uwb_id \in DOMAIN uwb_cache
                             THEN Some(uwb_cache[uwb_id]) ELSE None]
       IN IF r.raised
          THEN /\ mat' = [mat EXCEPT !.pc = "raised", !.todo = <<>>, !.uwbs = <<>>,
                                     !.looked = Append(@, seen),
                                     !.data_validator = r.data_validator]
               /\ network' = None
          ELSE /\ mat' = [mat EXCEPT !.todo = Tail(@), !.timestamp = r.timestamp,
                                     !.uwbs = Append(@, r.uwb),
                                     !.looked = Append(@, seen),
                                     !.data_validator = r.data_validator]
               /\ network' = network
    /\ UNCHANGED <<confVars, callbackVars, readerVars, lifeVars, shutdownVars, sentVars, recoveryVars, uplinkVars, healthVars, cmdVars, resetVars, valVars, stream, arrived, pieces, fr, now, cache, uwb_cache, keys, sweep, lookup, pubVars>>

\* the edges are attached to their two ends and the Network is returned
ConvertFinish ==
    /\ mat.pc = "nodes" /\ mat.todo = <<>>
    /\ mat' = [mat EXCEPT !.pc = "returned",
                          !.uwbs = AttachEdges(mat.uwbs, mat.edge_list)]
    /\ network' = Some([uwbs |-> AttachEdges(mat.uwbs, mat.edge_list)])
    /\ UNCHANGED <<confVars, callbackVars, readerVars, lifeVars, shutdownVars, sentVars, recoveryVars, uplinkVars, healthVars, cmdVars, resetVars, valVars, stream, arrived, pieces, fr, now, cache, uwb_cache, keys, sweep, lookup, pubVars>>

\* _on_message up to the lock, while the converter runs: cached_data of an
\* uplink of D1 or D2, stamped with time.time()
OnMessageTag ==
    /\ callback = None /\ mat.uplinks < MaxUplinks
    /\ \E d \in {"D1", "D2"}, loc \in UplinkLocations :
         callback' = Some(TagRecord(d, now, loc))
    /\ mat' = [mat EXCEPT !.uplinks = @ + 1]
    /\ lookup' = NoLookup
    /\ UNCHANGED <<cache, uwb_cache, keys, confVars, readerVars, lifeVars, shutdownVars, sentVars, recoveryVars, uplinkVars, healthVars, cmdVars, resetVars, valVars, parserVars, now, sweep, pubVars>>

\* the eviction thread wakes and _cleanup_expired_entries takes the lock
CleanupWakes ==
    /\ mat.sweeps < MaxSweeps
    /\ SweepBegins
    /\ mat' = [mat EXCEPT !.sweeps = @ + 1]
    /\ lookup' = NoLookup
    /\ UNCHANGED <<confVars, callbackVars, readerVars, lifeVars, shutdownVars, sentVars, recoveryVars, uplinkVars, healthVars, cmdVars, resetVars, valVars, parserVars, now, pubVars>>

NextConvert ==
    \/ ConvertStart \/ ConvertNode \/ ConvertFinish
    \/ Tick \/ OnMessageTag \/ OnMessageStore
    \/ CleanupWakes \/ CleanupExamine \/ CleanupRemove
SpecConvert == InitConvert /\ [][NextConvert]_vars

(***************************************************************************)
(* start() and stop() of the LoRa cache and the threads they leave         *)
(* (lora_tag_cache.py)                                                     *)
(***************************************************************************)
\* the thread objects of one kind that are alive
Alive(threads) == {i \in 1..Len(threads) : threads[i] # "ended"}

\* start()
StartCache ==
    /\ lifecycle.call = "none"
    /\ Len(lifecycle.run) < MaxStarts
    /\ lifecycle' =
         IF lifecycle._running
         THEN [lifecycle EXCEPT !.last = "already running"]
         ELSE [lifecycle EXCEPT
                  !._running = TRUE,
                  !.run = Append(@, "connect"),
                  !._thread = Some(Len(lifecycle.run) + 1),
                  !._cleanup_running = TRUE,
                  !.cleanup = Append(@, "test"),
                  !._cleanup_thread = Some(Len(lifecycle.cleanup) + 1),
                  !.last = "started"]
    /\ UNCHANGED <<confVars, callbackVars, readerVars, shutdownVars, sentVars, recoveryVars, uplinkVars, healthVars, cmdVars, resetVars, valVars, parserVars, now, cacheVars, pubVars>>

\* mqtt_client.loop_stop(); mqtt_client.disconnect() on whatever client
\* self.mqtt_client names
ClientStopped(lc) ==
    IF lc.mqtt_client # None THEN [lc EXCEPT !.loops[lc.mqtt_client[1]] = "stopped"] ELSE lc

\* stop() up to the first join: both flags cleared, the client stopped
StopCache ==
    /\ lifecycle.call = "none"
    /\ lifecycle' = [ClientStopped(lifecycle) EXCEPT
                        !._running = FALSE, !._cleanup_running = FALSE,
                        !.call = "join_thread", !.waited = 0, !.last = "stop"]
    /\ UNCHANGED <<confVars, callbackVars, readerVars, shutdownVars, sentVars, recoveryVars, uplinkVars, healthVars, cmdVars, resetVars, valVars, parserVars, now, cacheVars, pubVars>>

\* the thread the running join waits for is alive
JoinedThreadAlive(lc) ==
    IF lc.call = "join_thread"
    THEN lc._thread # None /\ lc.run[lc._thread[1]] # "ended"
    ELSE lc._cleanup_thread # None /\ lc.cleanup[lc._cleanup_thread[1]] # "ended"

\* a second passes inside join(timeout=5); a time.sleep(1) that was running
\* is over after it, and no second passes before the sleeper has gone on, nor
\* while a _run thread stands before a statement that does not block (only
\* connect() and sleep() take time)
StopJoinWait ==
    /\ lifecycle.call \in {"join_thread", "join_cleanup"}
    /\ JoinedThreadAlive(lifecycle) /\ lifecycle.waited < JOIN_TIMEOUT
    /\ \A i \in 1..Len(lifecycle.run) :
           lifecycle.run[i] \notin {"connect", "connected", "woken"}
    /\ lifecycle' = [lifecycle EXCEPT
                        !.waited = @ + 1,
                        !.run = [i \in 1..Len(@) |-> IF @[i] = "sleep" THEN "woken" ELSE @[i]]]
    /\ UNCHANGED <<confVars, callbackVars, readerVars, shutdownVars, sentVars, recoveryVars, uplinkVars, healthVars, cmdVars, resetVars, valVars, parserVars, now, cacheVars, pubVars>>

\* join returns: the thread has ended or the timeout has run out
StopJoinReturn ==
    /\ lifecycle.call \in {"join_thread", "join_cleanup"}
    /\ ~JoinedThreadAlive(lifecycle) \/ lifecycle.waited = JOIN_TIMEOUT
    /\ lifecycle' = [lifecycle EXCEPT
                        !.call = IF @ = "join_thread" THEN "join_cleanup" ELSE "none",
                        !.waited = 0,
                        !.last = IF lifecycle.call = "join_cleanup" THEN "stopped" ELSE @]
    /\ UNCHANGED <<confVars, callbackVars, readerVars, shutdownVars, sentVars, recoveryVars, uplinkVars, healthVars, cmdVars, resetVars, valVars, parserVars, now, cacheVars, pubVars>>

\* _run, first statements: the thread makes a client of its own, binds it to
\* self.mqtt_client and sets the callbacks, the credentials and TLS
RunMakeClient ==
    /\ \E i \in 1..Len(lifecycle.run) :
         /\ lifecycle.run[i] = "connect"
         /\ lifecycle' = [lifecycle EXCEPT !.run[i] = "connecting", !.mqtt_client = Some(i)]
    /\ UNCHANGED <<confVars, callbackVars, readerVars, shutdownVars, sentVars, recoveryVars, uplinkVars, healthVars, cmdVars, resetVars, valVars, parserVars, now, cacheVars, pubVars>>

\* self.mqtt_client.connect(broker, port, 60) is over, after as long as the
\* network took: it has returned, or it has raised, and then the except
\* block logs and the finally block stops whatever client self.mqtt_client
\* names; _running is left as it is
RunConnect ==
    /\ \E i \in 1..Len(lifecycle.run), raised \in BOOLEAN :
         /\ lifecycle.run[i] = "connecting"
         /\ lifecycle' = IF raised
                         THEN [ClientStopped(lifecycle) EXCEPT !.run[i] = "ended"]
                         ELSE [lifecycle EXCEPT !.run[i] = "connected"]
    /\ UNCHANGED <<confVars, callbackVars, readerVars, shutdownVars, sentVars, recoveryVars, uplinkVars, healthVars, cmdVars, resetVars, valVars, parserVars, now, cacheVars, pubVars>>

\* self.mqtt_client.loop_start(), on whatever client self.mqtt_client names
\* by now; the thread goes on to the test of its loop
RunLoopStart ==
    /\ \E i \in 1..Len(lifecycle.run) :
         /\ lifecycle.run[i] = "connected"
         /\ lifecycle' = [lifecycle EXCEPT !.run[i] = "woken",
                                           !.loops[lifecycle.mqtt_client[1]] = "started"]
    /\ UNCHANGED <<confVars, callbackVars, readerVars, shutdownVars, sentVars, recoveryVars, uplinkVars, healthVars, cmdVars, resetVars, valVars, parserVars, now, cacheVars, pubVars>>

\* while self._running: time.sleep(1), and the finally block after the loop
RunLoop ==
    /\ \E i \in 1..Len(lifecycle.run) :
         /\ lifecycle.run[i] \in {"sleep", "woken"}
         /\ lifecycle' = IF lifecycle._running
                         THEN [lifecycle EXCEPT !.run[i] = "sleep"]
                         ELSE [ClientStopped(lifecycle) EXCEPT !.run[i] = "ended"]
         /\ lifecycle' # lifecycle
    /\ UNCHANGED <<confVars, callbackVars, readerVars, shutdownVars, sentVars, recoveryVars, uplinkVars, healthVars, cmdVars, resetVars, valVars, parserVars, now, cacheVars, pubVars>>

\* while self._cleanup_running:
CleanupTest ==
    /\ \E i \in 1..Len(lifecycle.cleanup) :
         /\ lifecycle.cleanup[i] = "test"
         /\ lifecycle' = [lifecycle EXCEPT
                             !.cleanup[i] = IF lifecycle._cleanup_running
                                            THEN "sleep" ELSE "ended"]
    /\ UNCHANGED <<confVars, callbackVars, readerVars, shutdownVars, sentVars, recoveryVars, uplinkVars, healthVars, cmdVars, resetVars, valVars, parserVars, now, cacheVars, pubVars>>

\* time.sleep(self.cleanup_interval_seconds) is over: the thread calls
\* self._cleanup_expired_entries() and gets the lock
CleanupWake ==
    /\ \E i \in 1..Len(lifecycle.cleanup) :
         /\ lifecycle.cleanup[i] = "sleep"
         /\ lifecycle' = [lifecycle EXCEPT !.cleanup[i] = "sweep",
                                           !.last_sweep_by = Some(i)]
    /\ SweepBegins
    /\ UNCHANGED <<confVars, callbackVars, readerVars, shutdownVars, sentVars, recoveryVars, uplinkVars, healthVars, cmdVars, resetVars, valVars, parserVars, now, lookup, mat, pubVars>>

\* the call returns (no uplink was stored, there was nothing to examine), and
\* the loop tests its flag again
CleanupReturn ==
    /\ \E i \in 1..Len(lifecycle.cleanup) :
         /\ lifecycle.cleanup[i] = "sweep"
         /\ lifecycle' = [lifecycle EXCEPT !.cleanup[i] = "test"]
    /\ SweepRemoves
    /\ UNCHANGED <<confVars, callbackVars, readerVars, shutdownVars, sentVars, recoveryVars, uplinkVars, healthVars, cmdVars, resetVars, valVars, parserVars, now, lookup, mat, pubVars>>

InitLifecycle ==
    /\ now = StartTime /\ InitCacheIdle /\ InitParserIdle /\ InitPubIdle /\ InitCallbackIdle /\ InitReaderIdle /\ InitShutdownIdle
    /\ InitSentIdle /\ InitRecoveryIdle /\ InitUplinkIdle /\ InitHealthIdle
    /\ InitCommandIdle /\ InitResetIdle /\ InitValIdle /\ InitConfAnchored
    /\ InitLifecycleIdle

NextLifecycle ==
    \/ StartCache \/ StopCache \/ StopJoinWait \/ StopJoinReturn
    \/ RunMakeClient \/ RunConnect \/ RunLoopStart \/ RunLoop
    \/ CleanupTest \/ CleanupWake \/ CleanupReturn
SpecLifecycle == InitLifecycle /\ [][NextLifecycle]_vars

(***************************************************************************)
(* The recording operations of HealthMonitor                               *)
(***************************************************************************)
\* record_parsing_error with the parsing_errors += 1 line left out
record_parsing_error_failed_only(h) ==
    [h EXCEPT !.failed_packets = @ + 1, !.consecutive_errors = @ + 1]

record_parsing_error(h) ==
    [h EXCEPT !.parsing_errors = @ + 1, !.failed_packets = @ + 1,
              !.consecutive_errors = @ + 1]

\* connection_errors and last_error_time are read by no status test
record_connection_error(h) == [h EXCEPT !.consecutive_errors = @ + 1]

record_device_reset(h) == [h EXCEPT !.consecutive_errors = 0]

record_successful_packet(h, current_time) ==
    [h EXCEPT !.successful_packets = @ + 1, !.consecutive_errors = 0,
              !.last_uwb_data_time = Some(current_time)]

record_mqtt_publish(h, success) ==
    IF success THEN [h EXCEPT !.mqtt_publishes = @ + 1]
    ELSE [h EXCEPT !.mqtt_failures = @ + 1]

\* mqtt_connected is None, Some(TRUE) or Some(FALSE)
update_connection_status(h, serial_connected, mqtt_connected, current_time) ==
    [h EXCEPT !.serial_connected = serial_connected,
              !.last_mqtt_connected_time =
                  IF mqtt_connected = Some(TRUE) THEN Some(current_time) ELSE @]

\* events one monitor has recorded
HealthEvents(h) ==
    h.successful_packets + h.failed_packets + h.mqtt_publishes + h.mqtt_failures

HealthUnchanged ==
    UNCHANGED <<confVars, callbackVars, readerVars, lifeVars, shutdownVars, sentVars, recoveryVars, uplinkVars, cmdVars, resetVars, valVars, parserVars, now, cacheVars, pubVars>>

RecordParsingError ==
    /\ HealthEvents(health) < MaxHealthEvents
    /\ health' = record_parsing_error(health)
    /\ HealthUnchanged

RecordConnectionError ==
    /\ health.consecutive_errors < MaxHealthEvents
    /\ health' = record_connection_error(health)
    /\ HealthUnchanged

RecordDeviceReset ==
    /\ health' = record_device_reset(health)
    /\ HealthUnchanged

RecordSuccessfulPacket ==
    /\ HealthEvents(health) < MaxHealthEvents
    /\ health' = record_successful_packet(health, now)
    /\ HealthUnchanged

RecordMqttPublish ==
    /\ HealthEvents(health) < MaxHealthEvents
    /\ \E success \in BOOLEAN : health' = record_mqtt_publish(health, success)
    /\ HealthUnchanged

UpdateConnectionStatus ==
    /\ \E serial_connected \in BOOLEAN, mqtt_connected \in {None, Some(TRUE), Some(FALSE)} :
         health' = update_connection_status(health, serial_connected, mqtt_connected, now)
    /\ HealthUnchanged

\* the MQTT client connects or loses its connection
MqttClientConnection ==
    /\ health' = [health EXCEPT !.mqtt_now = ~@]
    /\ HealthUnchanged

\* get_health_status, as often as the reporting loop asks
AskHealthStatus ==
    /\ health' = get_health_status(health, now)
    /\ HealthUnchanged

InitHealthOps ==
    /\ now = StartTime /\ InitCacheIdle /\ InitParserIdle /\ InitPubIdle /\ InitCallbackIdle /\ InitReaderIdle /\ InitShutdownIdle
    /\ InitSentIdle /\ InitRecoveryIdle /\ InitUplinkIdle /\ InitHealthIdle
    /\ InitCommandIdle /\ InitResetIdle /\ InitValIdle /\ InitConfAnchored
    /\ InitLifecycleIdle

NextHealthOps ==
    \/ RecordParsingError \/ RecordConnectionError \/ RecordDeviceReset
    \/ RecordSuccessfulPacket \/ RecordMqttPublish \/ UpdateConnectionStatus
    \/ MqttClientConnection \/ AskHealthStatus
SpecHealthOps == InitHealthOps /\ [][NextHealthOps]_vars

(***************************************************************************)
(* A reader beside ingestion and eviction: records as shared dictionaries  *)
(***************************************************************************)
\* the content the index entries refer to
Deref(objects, refs) == [x \in DOMAIN refs |-> objects[refs[x]]]

\* self._cache[dev_eui].update(cached_data): the stored dictionary is rewritten
store_record_in_place(r, cached_data) ==
    LET d == cached_data.dev_eui
        uwb_id == DevEuiToUwbId(d)
        i == IF d \in DOMAIN r.cache_ref THEN r.cache_ref[d] ELSE Len(r.objects) + 1
        objects == IF d \in DOMAIN r.cache_ref THEN [r.objects EXCEPT ![i] = cached_data]
                   ELSE Append(r.objects, cached_data)
    IN [r EXCEPT !.objects = objects,
                 !.cache_ref = Put(@, d, i),
                 !.uwb_ref = IF uwb_id # None THEN Put(@, uwb_id[1], i) ELSE @]

\* self._cache[dev_eui] = cached_data; self._uwb_cache[uwb_id] = cached_data:
\* both entries refer to the dictionary just built
store_record(r, cached_data) ==
    LET d == cached_data.dev_eui
        uwb_id == DevEuiToUwbId(d)
        i == Len(r.objects) + 1
    IN [r EXCEPT !.objects = Append(@, cached_data),
                 !.cache_ref = Put(@, d, i),
                 !.uwb_ref = IF uwb_id # None THEN Put(@, uwb_id[1], i) ELSE @]

\* del self._cache[dev_eui]; del self._uwb_cache[uwb_id]
drop_expired(r, expired_dev_euis, expired_uwb_ids) ==
    [r EXCEPT !.cache_ref = Drop(@, Members(expired_dev_euis)),
              !.uwb_ref = Drop(@, Members(expired_uwb_ids))]

\* return data: the reader gets the dictionary itself
hold(r, refs, key, result) ==
    IF result = None THEN [r EXCEPT !.held = None, !.seen = None]
    ELSE [r EXCEPT !.held = Some(refs[key]), !.seen = Some(r.objects[refs[key]])]

ReaderUnchanged ==
    UNCHANGED <<confVars, lifeVars, shutdownVars, sentVars, recoveryVars, uplinkVars, healthVars, cmdVars, resetVars, valVars, parserVars, now, mat, pubVars>>

\* the uplinks that arrive beside the reader: of the tag D1 and of D3, which has
\* no UWB id, with a GPS fix or without a location
ReaderDevEuis == {"D1", "D3"}
ReaderLocations == {loc \in Locations : loc.latitude # Some(0)}

ReaderOnMessage ==
    /\ callback = None
    /\ Len(reader.objects) < MaxObjects
    /\ \E d \in ReaderDevEuis, loc \in ReaderLocations :
         callback' = Some([dev_eui |-> d, timestamp |-> now, location |-> loc])
    /\ UNCHANGED <<cache, uwb_cache, keys, sweep, lookup, reader>>
    /\ ReaderUnchanged

\* the dictionary built by the call is stored under the lock
ReaderStore ==
    /\ callback # None /\ ~sweep.holding
    /\ cache' = Put(cache, callback[1].dev_eui, callback[1])
    /\ uwb_cache' = StoreUwb(uwb_cache, callback[1])
    /\ keys' = StoreKeys(keys, callback[1])
    /\ reader' = store_record(reader, callback[1])
    /\ callback' = None
    /\ UNCHANGED <<sweep, lookup>>
    /\ ReaderUnchanged

\* the eviction thread beside the reader: the lock taken, the entries
\* examined one by one, the expired ones deleted
ReaderCleanup ==
    /\ SweepBegins
    /\ UNCHANGED <<lookup, callback, reader>>
    /\ ReaderUnchanged

ReaderExamine ==
    /\ SweepExamines
    /\ UNCHANGED <<lookup, callback, reader>>
    /\ ReaderUnchanged

ReaderRemove ==
    /\ SweepRemoves
    /\ reader' = drop_expired(reader, sweep.expired_dev_euis, sweep.expired_uwb_ids)
    /\ UNCHANGED <<lookup, callback>>
    /\ ReaderUnchanged

ReaderGetByUwbId ==
    /\ ~sweep.holding
    /\ \E id \in {NodeA, NodeB}, ma \in {None}, chk \in BOOLEAN :
         LET result == get_by_uwb_id(uwb_cache, id, ma, chk, now)
         IN /\ lookup' = [by |-> "uwb_id", key |-> id, max_age |-> ma, check |-> chk,
                          at |-> now, result |-> result]
            /\ reader' = hold(reader, reader.uwb_ref, id, result)
    /\ UNCHANGED <<cache, uwb_cache, keys, sweep, callback>>
    /\ ReaderUnchanged

ReaderGetByDevEui ==
    /\ ~sweep.holding
    /\ \E d \in ReaderDevEuis :
         LET result == get_by_dev_eui(cache, d)
         IN /\ lookup' = [by |-> "dev_eui", key |-> d, max_age |-> None, check |-> FALSE,
                          at |-> now, result |-> result]
            /\ reader' = hold(reader, reader.cache_ref, d, result)
    /\ UNCHANGED <<cache, uwb_cache, keys, sweep, callback>>
    /\ ReaderUnchanged

\* time passes while the reader keeps its record
ReaderTick ==
    /\ now < MaxTime
    /\ now' = now + 1
    /\ UNCHANGED <<confVars, callbackVars, lifeVars, readerVars, shutdownVars, sentVars, recoveryVars, uplinkVars, healthVars, cmdVars, resetVars, valVars, parserVars, cacheVars, pubVars>>

NextReader ==
    \/ ReaderOnMessage \/ ReaderStore \/ ReaderGetByUwbId \/ ReaderGetByDevEui
    \/ ReaderCleanup \/ ReaderExamine \/ ReaderRemove
    \/ ReaderTick
SpecReader == InitCache /\ [][NextReader]_vars

(***************************************************************************)
(* One ErrorRecovery over the life of the process                          *)
(***************************************************************************)
\* an ErrorRecovery built with a backoff_multiplier of 1 or more
InitRecoveryLife ==
    /\ now = StartTime /\ InitCacheIdle /\ InitParserIdle /\ InitPubIdle /\ InitCallbackIdle /\ InitReaderIdle /\ InitLifecycleIdle /\ InitShutdownIdle /\ InitSentIdle /\ InitConfAnchored
    /\ InitUplinkIdle /\ InitHealthIdle /\ InitCommandIdle /\ InitResetIdle /\ InitValIdle
    /\ \E multiplier \in 1..MaxMultiplier :
         recovery = [NewErrorRecovery(MAX_PARSING_ERRORS, connection_error_threshold)
                        EXCEPT !.backoff_multiplier = multiplier]

\* a parsing error is recorded, at the threshold and past it
RecordParsingFailure ==
    /\ recovery.error_counts["parsing"] < MaxErrCount
    /\ recovery' = record_error(recovery, "parsing")
    /\ UNCHANGED <<confVars, callbackVars, readerVars, lifeVars, shutdownVars, sentVars, uplinkVars, healthVars, cmdVars, resetVars, valVars, parserVars, now, cacheVars, pubVars>>

\* packets succeed again: the caller clears the counters of one class or of all
PacketsSucceed ==
    /\ \E error_type \in {"parsing", "none"} :
         recovery' = reset_error_counts(recovery, error_type)
    /\ UNCHANGED <<confVars, callbackVars, readerVars, lifeVars, shutdownVars, sentVars, uplinkVars, healthVars, cmdVars, resetVars, valVars, parserVars, now, cacheVars, pubVars>>

NextRecoveryLife ==
    \/ Elapse \/ ShouldResetWithBackoff \/ RecordReset
    \/ RecordParsingFailure \/ PacketsSucceed
SpecRecoveryLife == InitRecoveryLife /\ [][NextRecoveryLife]_vars

NextRecover == Arrive \/ ReadByte \/ ReadPayload \/ ResetDevice \/ Tick
SpecRecover == InitRecover /\ [][NextRecover]_vars

NextValidate == ValidateEdgeList
SpecValidate == InitValidate /\ [][NextValidate]_vars

Init == InitFrame
Next ==
    \/ NextFrame \/ NextCache \/ NextMat \/ NextPub \/ NextValidate
    \/ NextPublishEdges
Spec == Init /\ [][Next]_vars

(***************************************************************************)
(* Properties of the framer and parser                                     *)
(***************************************************************************)
NetworkNodeIds == {network[1].uwbs[i].id : i \in 1..Len(network[1].uwbs)}
NetworkEdgesOf(id) ==
    LET uwbs == network[1].uwbs
        i == CHOOSE i \in 1..Len(uwbs) : uwbs[i].id = id
    IN {uwbs[i].edges[k] : k \in 1..Len(uwbs[i].edges)}

\* C2: in every Network published from a Distance packet, each edge (a,b,d)
\* of the packet has both ends among the nodes, a distance above 0 and below
\* 300 m (kept here in millimetres), and is listed under node a and under
\* node b; and no node lists an edge with any other shape.
NetworkEdgeInvariant ==
    (args.cga_format /\ network # None) =>
        LET published == FormatEdges(fr.emitted[Len(fr.emitted)])
        IN /\ \A k \in 1..Len(published) :
                LET e == published[k]
                IN /\ e[1] \in NetworkNodeIds /\ e[2] \in NetworkNodeIds
                   /\ 0 < e[3] /\ e[3] < 300000
                   /\ e \in NetworkEdgesOf(e[1])
                   /\ e \in NetworkEdgesOf(e[2])
           /\ \A id \in NetworkNodeIds : \A e \in NetworkEdgesOf(id) :
                /\ \E k \in 1..Len(published) : published[k] = e
                /\ id \in {e[1], e[2]}

\* a Network with three nodes and two edges over the middle one was published
NetworkEdgeWitness ==
    /\ args.cga_format /\ network # None
    /\ Cardinality(NetworkNodeIds) = 3
    /\ \E id \in NetworkNodeIds :
         /\ Cardinality(NetworkEdgesOf(id)) = 2
         /\ \E e \in NetworkEdgesOf(id) : e[2] = id /\ e[1] # id

\* the stream is used up: everything arrived and the loop can do no more
Finished == arrived = Len(stream) /\ ~CanStep(fr, arrived)

\* C7 as stated: whatever the arrival boundaries, the edge lists produced
\* are those of the same stream arriving as one blob.
FramingIndependentOfArrival ==
    Finished => fr.emitted = RunBlob(InitFr, stream).emitted

\* C7 amended: as long as the loop performed no device reset (which empties
\* the input buffer of whatever had arrived), the edge lists produced are
\* those of the same stream arriving as one blob.
FramingIndependentWithoutReset ==
    (Finished /\ fr.resets = 0) => fr.emitted = RunBlob(InitFr, stream).emitted

\* a stream that came in several pieces was parsed to the end, with edges
FramingWitness ==
    /\ Finished /\ fr.resets = 0 /\ pieces = 2
    /\ Len(fr.emitted) = 1
    /\ fr.last.kind = PACKET_TYPE_DISTANCE

\* C9: a Distance packet parsed without error yields, pair by pair, an edge
\* for exactly the TWR values v with 1 <= v <= 63960 (63960 is
\* floor(300 / 0.004690384): v > 0 and v x 0.004690384 < 300), and the
\* values it drops leave the parse-error counter as it was.
TwrAcceptance ==
    (fr.last.kind = PACKET_TYPE_DISTANCE /\ ~fr.last.err /\ Len(fr.assignments) = 3) =>
        LET pairs == PairList(fr.assignments, fr.mode)
            twrs == fr.last.twrs
            keep == SelectSeq(Tab(Len(twrs), LAMBDA k : k),
                              LAMBDA k : 1 <= twrs[k] /\ twrs[k] <= 63960)
        IN /\ Len(fr.last.results) = Len(keep)
           /\ \A n \in 1..Len(keep) :
                /\ fr.last.results[n][1] = pairs[keep[n]][1]
                /\ fr.last.results[n][2] = pairs[keep[n]][2]
                /\ fr.last.results[n][3] = Micrometres(twrs[keep[n]])
           /\ fr.parsing_error_count = fr.last.count_before

\* the packet with TWR values 0, 1 and 63960 gave the edges of 1 and 63960,
\* and the one with 63961 and 65535 before it gave one edge
TwrAcceptanceWitness ==
    /\ fr.last.kind = PACKET_TYPE_DISTANCE /\ ~fr.last.err
    /\ fr.last.twrs = <<0, 1, 63960>>
    /\ Len(fr.last.results) = 2
    /\ Len(fr.emitted) = 2 /\ Len(fr.emitted[1]) = 1

\* C10 as stated: when the Assignment just received has exactly one zero
\* in G3 and the Distance packet carries one resolving id, the zero slot
\* holds that id afterwards, the other slots are untouched, and the edges
\* are those of the pair list with the resolved G3.
SentinelResolution ==
    LET rx == fr.last.g3_rx
        zeros == {j \in 1..Len(rx) : rx[j] = 0}
        resolved == [j \in 1..Len(rx) |-> IF rx[j] = 0 THEN fr.last.new_ids[1] ELSE rx[j]]
    IN (/\ fr.last.kind = PACKET_TYPE_DISTANCE /\ ~fr.last.err
        /\ Len(fr.last.asg_before) = 3 /\ fr.last.asg_before[3] = rx
        /\ Cardinality(zeros) = 1 /\ Len(fr.last.new_ids) = 1)
       => /\ fr.assignments[3] = resolved
          /\ \A n \in 1..Len(fr.last.results) :
                /\ fr.last.results[n][1] # 0
                /\ fr.last.results[n][2] # 0

(***************************************************************************)
(* Properties of the publisher                                             *)
(***************************************************************************)
\* a publish has succeeded in this step (the stamp moves on rc SUCCESS only)
\* and it is not the first one
PublishedAgain == pub.count >= 1 /\ pub'.last_publish_time # pub.last_publish_time

\* C1, as stated: a successful publish that follows another one is at least
\* one rate-limit interval after it, the interval being the value the register
\* holds when the publish is made, whatever commands were handled before or
\* between the steps of the attempt.
PublishSeparationAsStated ==
    [][ PublishedAgain =>
          ~Below(pub'.last_publish_time - pub.last_publish_time, pub.rate_limit)
      ]_vars

\* C1, amended: the interval is the value the later attempt read from the
\* register under the lock.  The read takes the register as it is then, no
\* command handled afterwards changes what the attempt has read, and the
\* publish that follows is at least that interval after the previous one.
PublishSeparation ==
    [][ /\ pub.pc = "stamped" /\ pub'.pc = "sampled" => pub'.rate_sample = pub.rate_limit
        /\ pub.pc = "sampled" => pub'.rate_sample = pub.rate_sample
        /\ PublishedAgain =>
              /\ pub.pc = "sampled"
              /\ ~Below(pub'.last_publish_time - pub.last_publish_time, pub.rate_sample)
      ]_vars

\* two publishes exactly one interval apart, the interval set by a command
\* and read by the second attempt, a command handled after the read having
\* raised the register above the separation; an attempt in between was
\* skipped for being too early
PublishSeparationWitness ==
    /\ pub.count = 2 /\ pub.pc = "idle" /\ pub.skipped = 1
    /\ pub.last_rate # Seconds(MaxRate)
    /\ pub.last_rate = Seconds(pub.last_publish_time - pub.prev_time)
    /\ pub.current_time = pub.last_publish_time
    /\ Below(pub.last_publish_time - pub.prev_time, pub.rate_limit)

(***************************************************************************)
(* Properties of the cache and of the materialiser                         *)
(***************************************************************************)
\* C3: a node with positionKnown carries the anchor map's entry for its id,
\* or the position of a cache record that was at most GpsTtl old when the
\* node was resolved; ingestion, sweeps and the clock run between the nodes.
PositionKnownIsFresh ==
    \A i \in 1..Len(mat.uwbs) :
        LET u == mat.uwbs[i]
        IN u.positionKnown =>
             \/ u.id \in AnchorIds /\ u.latLonAlt = AnchorPosition(u.id)
             \/ /\ u.lora_data # None
                /\ u.lookupTime - u.lora_data[1].timestamp <= GpsTtl
                /\ u.latLonAlt = <<u.lora_data[1].location.latitude,
                                   u.lora_data[1].location.longitude,
                                   u.lora_data[1].location.altitude>>

\* all nodes of a Network resolved; its tag took its position from a record that a
\* sweep has removed since, next to the anchor
PositionKnownWitness ==
    /\ mat.pc = "nodes" /\ mat.todo = <<>>
    /\ \E i, j \in 1..Len(mat.uwbs) :
         /\ mat.uwbs[i].id = NodeA /\ mat.uwbs[i].positionKnown
         /\ mat.uwbs[i].lookupTime - mat.uwbs[i].lora_data[1].timestamp = GpsTtl
         /\ mat.uwbs[j].id = NodeB /\ mat.uwbs[j].positionKnown
         /\ mat.uwbs[j].lookupTime > mat.uwbs[i].lookupTime
    /\ NodeA \notin DOMAIN uwb_cache

\* C4: every entry of the NodeId index is in the DevEui index, under the
\* DevEui it carries, with equal contents.
IndexAgreement ==
    \A id \in DOMAIN uwb_cache :
        /\ uwb_cache[id].dev_eui \in DOMAIN cache
        /\ cache[uwb_cache[id].dev_eui] = uwb_cache[id]

\* after a sweep that removed something: one mapped device still in both
\* indices, and a device without UWB id in the DevEui index only
IndexAgreementWitness ==
    /\ sweep.removed
    /\ DOMAIN uwb_cache # {}
    /\ Cardinality(DOMAIN cache) > Cardinality(DOMAIN uwb_cache)
    /\ lookup.by = "uwb_id" /\ lookup.result # None

MaxTtl == Max(GpsTtl, SensorTtl)
StoredRecords == {cache[d] : d \in DOMAIN cache} \cup {uwb_cache[id] : id \in DOMAIN uwb_cache}

\* the step completes a sweep: the expired entries are deleted and the lock is
\* released
SweepStep == sweep.holding /\ ~sweep'.holding

\* the entries the sweep examined in one index, and the clock reading of the
\* _is_data_valid call on one of them
ExaminedIn(index) == {e.key : e \in {x \in Members(sweep.examined) : x.index = index}}
ExaminedAt(index, key) ==
    (CHOOSE e \in Members(sweep.examined) : e.index = index /\ e.key = key).at

\* C5 as stated: in every state, every stored entry is at most
\* max(gpsTtl, sensorTtl) old.
NoEntryPastMaxTtl ==
    \A r \in StoredRecords : now - r.timestamp <= MaxTtl

\* C5 amended: no entry survives an eviction sweep that examines it more
\* than max(gpsTtl, sensorTtl) after its capture: an entry that is in an index
\* before a sweep and still there after it was at most that old when the
\* sweep read the clock for it; until the next sweep an older entry stays
\* stored.
NoEntrySurvivesSweepPastMaxTtl ==
    [][SweepStep =>
         /\ \A d \in DOMAIN cache \cap DOMAIN cache' :
                ExaminedAt("cache", d) - cache[d].timestamp <= MaxTtl
         /\ \A id \in DOMAIN uwb_cache \cap DOMAIN uwb_cache' :
                ExaminedAt("uwb_cache", id) - uwb_cache[id].timestamp <= MaxTtl]_vars

\* an entry older than max(gpsTtl, sensorTtl) is stored, after a sweep that
\* removed another one, and get_by_dev_eui still returns it
SurvivesSweepWitness ==
    /\ sweep.at # None /\ sweep.removed
    /\ lookup.by = "dev_eui" /\ lookup.result # None
    /\ now - lookup.result[1].timestamp > MaxTtl

\* C6 as stated: when a sweep completes, neither index holds an entry older
\* than max(gpsTtl, sensorTtl).
SweepBoundaryClean ==
    [][SweepStep =>
         \A r \in StoredRecords' : now' - r.timestamp <= MaxTtl]_vars

\* C6 amended: when a sweep completes, every entry of either index is one the
\* sweep examined (ingestion waits for the lock) and was at most
\* max(gpsTtl, sensorTtl) old at the clock reading the sweep took for it.
SweepBoundaryExamined ==
    [][SweepStep =>
         /\ DOMAIN cache' \subseteq ExaminedIn("cache")
         /\ DOMAIN uwb_cache' \subseteq ExaminedIn("uwb_cache")
         /\ \A d \in DOMAIN cache' :
                ExaminedAt("cache", d) - cache'[d].timestamp <= MaxTtl
         /\ \A id \in DOMAIN uwb_cache' :
                ExaminedAt("uwb_cache", id) - uwb_cache'[id].timestamp <= MaxTtl]_vars

\* a sweep has just completed; it removed an entry and left one that has
\* passed max(gpsTtl, sensorTtl) since the sweep examined it
SweepBoundaryWitness ==
    /\ sweep.at = Some(now) /\ sweep.removed /\ sweep.overdue
    /\ callback = None

(***************************************************************************)
(* Read contract of the cache                                              *)
(***************************************************************************)
\* the record carries latitude and longitude (both keys hold a number)
CarriesLatLon(data) ==
    /\ data.location.present
    /\ data.location.latitude # None /\ data.location.longitude # None

\* expired under the criteria a lookup selects: the override replaces both
\* TTLs; the GPS TTL counts only when check_gps_staleness is set and the
\* record carries latitude and longitude
ExpiredUnder(data, max_age, check, t) ==
    LET age == t - data.timestamp
        gps_limit == IF max_age # None THEN max_age[1] ELSE GpsTtl
        sensor_limit == IF max_age # None THEN max_age[1] ELSE SensorTtl
    IN (check /\ CarriesLatLon(data) /\ age > gps_limit) \/ age > sensor_limit

\* C11 as stated: get_by_uwb_id returns the stored record iff it is not
\* expired under the selected criteria, and not-found otherwise (so a record
\* with latitude and longitude is returned up to gpsTtl after its capture and
\* not after); get_by_dev_eui returns whatever is stored.
LookupContract ==
    /\ lookup.by = "uwb_id" =>
         lookup.result =
            IF lookup.key \in DOMAIN uwb_cache
               /\ ~ExpiredUnder(uwb_cache[lookup.key], lookup.max_age, lookup.check, lookup.at)
            THEN Some(uwb_cache[lookup.key]) ELSE None
    /\ lookup.by = "dev_eui" =>
         lookup.result =
            IF lookup.key \in DOMAIN cache THEN Some(cache[lookup.key]) ELSE None

\* C20 as stated: a sweep deletes from each index exactly the entries with
\* (latitude and longitude carried and age > gpsTtl) or age > sensorTtl, and
\* leaves every other entry as it was, the age of an entry taken at the clock
\* reading the sweep took for it.
SweepDeletesExactlyExpired ==
    [][SweepStep =>
         /\ cache' = Drop(cache, {d \in DOMAIN cache :
                ExpiredUnder(cache[d], None, TRUE, ExaminedAt("cache", d))})
         /\ uwb_cache' = Drop(uwb_cache, {id \in DOMAIN uwb_cache :
                ExpiredUnder(uwb_cache[id], None, TRUE, ExaminedAt("uwb_cache", id))})]_vars

(***************************************************************************)
(* Scenario A: one Assignment and one Distance packet, no anchors, no cache *)
(***************************************************************************)
ScenarioAAssignment == AssignmentFrame(0, <<46291>>, <<47498>>, <<46321>>)

\* the Network of the scenario: the nodes B4D3, B4F1, B98A in this order,
\* none with a known position, and the three edges, each under both of its
\* ends, each of the same distance within 5 mm of 5.003 m
ScenarioANetwork ==
    /\ network # None
    /\ LET uwbs == network[1].uwbs
       IN /\ Len(uwbs) = 3
          /\ uwbs[1].id = NodeA /\ uwbs[2].id = NodeC /\ uwbs[3].id = NodeB
          /\ \A i \in 1..3 : ~uwbs[i].positionKnown
          /\ \E d \in 4998..5008 :
               /\ NetworkEdgesOf(NodeA) = {<<NodeA, NodeB, d>>, <<NodeA, NodeC, d>>}
               /\ NetworkEdgesOf(NodeB) = {<<NodeA, NodeB, d>>, <<NodeB, NodeC, d>>}
               /\ NetworkEdgesOf(NodeC) = {<<NodeA, NodeC, d>>, <<NodeB, NodeC, d>>}
               /\ \A i \in 1..3 : Len(uwbs[i].edges) = 2

\* C12 as stated: the Assignment frame followed by the Distance frame with
\* payload 04 00 0000 00 00 01 01 01 D3B4 8AB9 F1B4 2A04 2A04 2A04, with no
\* anchors and no cache, publishes the Network of the scenario (the document
\* is a Network when the script runs with --cga-format).
ScenarioAAsStated ==
    (/\ stream = ScenarioAAssignment
                 \o FinalPacketOfGenerator(0, <<46291>>, <<47498>>, <<46321>>,
                                           <<1066, 1066, 1066>>)
     /\ args.cga_format
     /\ anchor_map = NoAnchors /\ uwb_cache = <<>> /\ Finished)
    => ScenarioANetwork

(***************************************************************************)
(* Scenario D: an edge of 250 m before the validator                       *)
(***************************************************************************)
\* the edges of the last list whose distance is that of TWR 53300 (249.997 m)
Edges250m ==
    {validator.edge_list[i] : i \in {j \in 1..Len(validator.edge_list) :
        /\ Len(validator.edge_list[j]) = 3
        /\ validator.edge_list[j][3] = RoundMm(Micrometres(53300))}}

ValidEdgeSet == {validator.valid_edges[i] : i \in 1..Len(validator.valid_edges)}
ValidationFailureSet == {validator.validation_failures[i] : i \in 1..Len(validator.validation_failures)}

\* C13 as stated: a validator with the default bounds excludes an edge of
\* 250 m from the valid edges and reports it as a failure of type
\* "distance" that carries the edge and a reason naming the violated bound.
ScenarioDAsStated ==
    (/\ validator.calls = 1
     /\ validator.min_distance_meters = 0 /\ validator.max_distance_meters = MAX_DISTANCE_METERS)
    => \A e \in Edges250m :
         /\ e \notin ValidEdgeSet
         /\ \E f \in ValidationFailureSet :
              /\ f.type = "distance" /\ f.edge = e
              /\ f.reason # None
              /\ f.reason[1].bound \in {validator.min_distance_meters, validator.max_distance_meters}

\* C13 amended: a validator whose maximum is below 250 m excludes an edge of
\* 250 m from the valid edges and reports it as a failure of type
\* "distance_validation" that carries the edge and a reason naming the
\* maximum; a validator with the default bounds [0, 300] m keeps the edge
\* and reports nothing about it.
ScenarioDRejected ==
    validator.calls = 1 =>
      \A e \in Edges250m :
        /\ (e[3] > validator.max_distance_meters) =>
             /\ e \notin ValidEdgeSet
             /\ \E f \in ValidationFailureSet :
                  /\ f.type = "distance_validation" /\ f.edge = e
                  /\ f.reason # None
                  /\ f.reason[1].text = "exceeds maximum"
                  /\ f.reason[1].bound = validator.max_distance_meters
        /\ (/\ validator.min_distance_meters = 0
            /\ validator.max_distance_meters = MAX_DISTANCE_METERS) =>
             /\ e \in ValidEdgeSet
             /\ \A f \in ValidationFailureSet : f.edge # e

\* a validator with a maximum of 200 m was handed an edge of 5 m and one of
\* 250 m: it kept the first and reported the second
ScenarioDWitness ==
    /\ validator.calls = 1 /\ validator.max_distance_meters < RoundMm(Micrometres(53300))
    /\ Len(validator.edge_list) = 2 /\ Edges250m # {}
    /\ Len(validator.valid_edges) = 1 /\ Len(validator.validation_failures) = 1
    /\ validator.distance_rejected >= 1

(***************************************************************************)
(* Scenario E: resets on a run of malformed Distance packets               *)
(***************************************************************************)
\* C14 as stated: a malformed Distance packet leads to a device reset
\* exactly when it is the third since the start or since the last reset;
\* the second reset comes at least the initial backoff (1 s) after the
\* first; and the reset after the fourth comes at least 2 s after it.
ScenarioEBackoff ==
    /\ (fr.last.kind = PACKET_TYPE_DISTANCE /\ fr.last.err) =>
          /\ (fr.last.count_before = MAX_PARSING_ERRORS - 1) =>
                \/ fr.pc = "reset"
                \/ fr.parsing_error_count = 0 /\ fr.resets >= 1
          /\ (fr.last.count_before < MAX_PARSING_ERRORS - 1) =>
                fr.parsing_error_count = fr.last.count_before + 1
    /\ Len(reset_times) >= 2 =>
          reset_times[2] - reset_times[1] >= initial_backoff_seconds
    /\ Len(reset_times) >= 5 =>
          reset_times[5] - reset_times[4] >= 2 * initial_backoff_seconds

(***************************************************************************)
(* C15  Scenario F: the rate limit is 10 s and 'set rate_limit 2' arrives  *)
(* on the command topic.  From then on the register is 2; an attempt that  *)
(* sampled it at least 2 s after the previous successful publish is not    *)
(* suppressed (it is published when the client is connected and the broker *)
(* accepts it), and an attempt less than 2 s after the previous successful *)
(* publish is suppressed.  Before the command an attempt less than 10 s    *)
(* after the previous publish is suppressed.                               *)
(***************************************************************************)
AttemptEnds == pub.pc = "sampled" /\ pub'.pc = "idle"
Suppressed ==
    /\ pub'.last_publish_time = pub.last_publish_time
    /\ pub'.count = pub.count /\ pub'.failures = pub.failures /\ pub'.skipped >= 1

ScenarioFRateChange ==
    [][ /\ command' # NoCommand => pub'.rate_limit = Seconds(2)
        /\ AttemptEnds /\ pub.rate_sample = Seconds(2) /\ pub.time_since_last >= 2
                       /\ pub.connected
             => \/ pub'.last_publish_time = pub.current_time /\ pub'.last_rate = Seconds(2)
                \/ pub'.failures >= 1 /\ pub'.last_publish_time = pub.last_publish_time
        /\ AttemptEnds /\ pub.rate_sample = Seconds(2) /\ pub.time_since_last < 2
             => Suppressed
        /\ AttemptEnds /\ pub.rate_sample = Seconds(DEFAULT_MQTT_RATE_LIMIT)
                       /\ pub.time_since_last < DEFAULT_MQTT_RATE_LIMIT => Suppressed
      ]_vars

\* the command came, a publish went out 2 s after the previous one, and the
\* attempt 1 s later was suppressed
ScenarioFWitness ==
    /\ pub.pc = "idle" /\ pub.rate_limit = Seconds(2) /\ pub.last_rate = Seconds(2)
    /\ pub.count = 2 /\ pub.prev_time = StartTime
    /\ pub.last_publish_time = StartTime + 2
    /\ pub.current_time = StartTime + 3 /\ pub.time_since_last = 1
    /\ pub.rate_sample = Seconds(2) /\ pub.skipped = 1 /\ pub.failures = 0

(***************************************************************************)
(* C18  The command callback changes the rate limit only for a payload of  *)
(* the form 'set rate_limit <positive-float>': such a command sets the     *)
(* register to that value and the next publish attempt samples it; every   *)
(* other payload leaves the register unchanged; no payload raises.         *)
(***************************************************************************)
\* the text after 'set rate_limit ', when the stripped payload starts with it
CommandText(payload) == Strip(Decode(payload).text)

CommandArgument(payload) ==
    SubSeq(CommandText(payload), Len(SetRateLimitPrefix) + 1, Len(CommandText(payload)))

\* What Python's float() makes of each value a client writes, taken from
\* float() itself: the float read when it is above zero (written, as every
\* float here, as the decimal it is read from), None when float() reads zero,
\* a negative number or nan, or raises ValueError.  Whole seconds are below ten.
PythonFloat ==
    { <<DecimalChars(n), Some(NumFloat(FALSE, <<n>>, 1))>> : n \in 1..MaxRate }
    \cup
    {
      \* float('0') is 0.0
      <<<<48>>, None>>,
      \* float('2.0') is 2.0
      <<<<50, 46, 48>>, Some(NumFloat(FALSE, <<2>>, 1))>>,
      \* float('+1') is 1.0
      <<<<43, 49>>, Some(NumFloat(FALSE, <<1>>, 1))>>,
      \* float('-1') is -1.0
      <<<<45, 49>>, None>>,
      \* float('.5') is 0.5
      <<<<46, 53>>, Some(NumFloat(FALSE, <<5>>, 0))>>,
      \* float('2.5') is 2.5
      <<<<50, 46, 53>>, Some(NumFloat(FALSE, <<2, 5>>, 1))>>,
      \* float('1e1') is 10.0
      <<<<49, 101, 49>>, Some(NumFloat(FALSE, <<1>>, 2))>>,
      \* float('1_0') is 10.0
      <<<<49, 95, 48>>, Some(NumFloat(FALSE, <<1>>, 2))>>,
      \* float('1e-400') is 0.0
      <<<<49, 101, 45, 52, 48, 48>>, None>>,
      \* float('1.797693134862315807937289714051e308') is 1.7976931348623157e+308
      <<<<49, 46, 55, 57, 55, 54, 57, 51, 49, 51, 52, 56, 54, 50, 51, 49, 53, 56, 48,
          55, 57, 51, 55, 50, 56, 57, 55, 49, 52, 48, 53, 49, 101, 51, 48, 56>>,
          Some(NumFloat(FALSE, <<1, 7, 9, 7, 6, 9, 3, 1, 3, 4, 8, 6, 2, 3, 1, 5, 8,
          0, 7, 9, 3, 7, 2, 8, 9, 7, 1, 4, 0, 5, 1>>, 309))>>,
      \* float('1.797693134862315807937289714054e308') is inf
      <<<<49, 46, 55, 57, 55, 54, 57, 51, 49, 51, 52, 56, 54, 50, 51, 49, 53, 56, 48,
          55, 57, 51, 55, 50, 56, 57, 55, 49, 52, 48, 53, 52, 101, 51, 48, 56>>,
          Some(InfFloat(FALSE))>>,
      \* float('2.470328229206232720882843964341e-324') is 0.0
      <<<<50, 46, 52, 55, 48, 51, 50, 56, 50, 50, 57, 50, 48, 54, 50, 51, 50, 55, 50,
          48, 56, 56, 50, 56, 52, 51, 57, 54, 52, 51, 52, 49, 101, 45, 51, 50, 52>>,
          None>>,
      \* float('2.470328229206232720882843964342e-324') is 5e-324
      <<<<50, 46, 52, 55, 48, 51, 50, 56, 50, 50, 57, 50, 48, 54, 50, 51, 50, 55, 50,
          48, 56, 56, 50, 56, 52, 51, 57, 54, 52, 51, 52, 50, 101, 45, 51, 50, 52>>,
          Some(NumFloat(FALSE, <<2, 4, 7, 0, 3, 2, 8, 2, 2, 9, 2, 0, 6, 2, 3, 2, 7,
          2, 0, 8, 8, 2, 8, 4, 3, 9, 6, 4, 3, 4, 2>>, -323))>>,
      \* float('inf') is inf
      <<<<105, 110, 102>>, Some(InfFloat(FALSE))>>,
      \* float('-inf') is -inf
      <<<<45, 105, 110, 102>>, None>>,
      \* float('NaN') is nan
      <<<<78, 97, 78>>, None>>,
      \* float('fast') is ValueError
      <<<<102, 97, 115, 116>>, None>>,
      \* float('\t2') is 2.0 (a tab, 2)
      <<<<9, 50>>, Some(NumFloat(FALSE, <<2>>, 1))>>,
      \* float of U+0663 alone is 3.0
      <<<<1635>>, Some(NumFloat(FALSE, <<3>>, 1))>>,
      \* float('') is ValueError (the empty string)
      <<<<>>, None>> }

Reading(token) == (CHOOSE reading \in PythonFloat : reading[1] = token)[2]

\* the token is read by float() as a number above zero, infinity included
ReadsPositive(token) == Reading(token) # None

\* a positive float and nothing else: no white space in the token
IsPositiveFloat(token) ==
    /\ \A i \in 1..Len(token) : token[i] \notin Whitespace
    /\ ReadsPositive(token)

\* a payload of the form 'set rate_limit <positive-float>'
SetRateLimitForm(payload) ==
    /\ Decode(payload).ok
    /\ StartsWith(CommandText(payload), SetRateLimitPrefix)
    /\ IsPositiveFloat(CommandArgument(payload))

\* the argument up to its first space
FirstWord(text) ==
    IF \E i \in 1..Len(text) : text[i] = 32
    THEN SubSeq(text, 1, (CHOOSE i \in 1..Len(text) :
                            text[i] = 32 /\ \A k \in 1..(i - 1) : text[k] # 32) - 1)
    ELSE text

\* the same, whatever follows the value after a space, and with white space
\* other than the space around the value
SetRateLimitFormThenAnything(payload) ==
    /\ Decode(payload).ok
    /\ StartsWith(CommandText(payload), SetRateLimitPrefix)
    /\ ReadsPositive(FirstWord(CommandArgument(payload)))

Handled == {"updated", "invalid", "unparseable", "unknown", "error"}

\* the two forms and the value named, over the commands a client sends
CommandsOfForm == {payload \in CommandPayloads : SetRateLimitForm(payload)}
CommandsOfFormThenAnything ==
    {payload \in CommandPayloads : SetRateLimitFormThenAnything(payload)}
ValueNamed ==
    [payload \in CommandsOfFormThenAnything |->
        Reading(FirstWord(CommandArgument(payload)))[1]]

CommandContractAsStated ==
    [][ /\ command' # NoCommand =>
             /\ command'.log \in Handled
             /\ IF command'.payload \in CommandsOfForm
                THEN pub'.rate_limit = ValueNamed[command'.payload]
                ELSE pub'.rate_limit = pub.rate_limit
        /\ pub.pc = "stamped" /\ pub'.pc = "sampled" => pub'.rate_sample = pub.rate_limit
      ]_vars

\* C18 as amended: the value may be followed by a space and any text
CommandContract ==
    [][ /\ command' # NoCommand =>
             /\ command'.log \in Handled
             /\ IF command'.payload \in CommandsOfFormThenAnything
                THEN /\ pub'.rate_limit = ValueNamed[command'.payload]
                     /\ command'.log = "updated"
                ELSE /\ pub'.rate_limit = pub.rate_limit
                     /\ command'.log # "updated"
        /\ pub.pc = "stamped" /\ pub'.pc = "sampled" => pub'.rate_sample = pub.rate_limit
      ]_vars

\* 'set rate_limit 2 s' has just replaced the initial rate limit by 2
CommandWitness ==
    /\ command.payload = SetRateLimitPrefix \o <<50, 32, 115>>
    /\ command.log = "updated"
    /\ pub.rate_limit = Seconds(2) /\ pub.rate_limit # InitPubRec.rate_limit

(***************************************************************************)
(* C16  A Distance packet received while no valid Assignment is held (the  *)
(* three groups present and non-empty) is dropped: no edges are emitted,   *)
(* the parser state is unchanged and the parse-error counter is not        *)
(* incremented.                                                            *)
(***************************************************************************)
ValidAssignment(assignments) ==
    Len(assignments) = 3 /\ \A i \in 1..3 : assignments[i] # <<>>

DistanceWithoutAssignmentDropped ==
    fr.last.kind = PACKET_TYPE_DISTANCE /\ ~ValidAssignment(fr.last.asg_before)
        => /\ fr.last.results = <<>>
           /\ ~fr.last.err
           /\ fr.assignments = fr.last.asg_before

(***************************************************************************)
(* C17  get_health_status reports 'unhealthy' if MQTT has been             *)
(* disconnected longer than its timeout (or never connected after the 30 s *)
(* grace), or the last UWB data is older than the UWB-data timeout, or     *)
(* consecutive errors >= 5, or parsing errors >= 10, or (parsing errors >  *)
(* 0 and success ratio < 0.8); otherwise 'degraded' if serial is           *)
(* disconnected or success ratio < 0.8; otherwise 'healthy'.               *)
(***************************************************************************)
MqttDownTooLong ==
    /\ ~health.mqtt_now
    /\ IF health.last_mqtt_connected_time # None
       THEN now - health.last_mqtt_connected_time[1] > MQTT_CONNECTION_TIMEOUT_SECONDS
       ELSE now - health.start_time > STARTUP_PERIOD

UwbDataStale ==
    /\ health.last_uwb_data_time # None
    /\ now - health.last_uwb_data_time[1] > UWB_DATA_TIMEOUT_SECONDS

SuccessRatioLow ==
    /\ health.successful_packets + health.failed_packets > 0
    /\ 10 * health.successful_packets
         < 8 * (health.successful_packets + health.failed_packets)

ClassifiedUnhealthy ==
    \/ MqttDownTooLong \/ UwbDataStale
    \/ health.consecutive_errors >= 5 \/ health.parsing_errors >= 10
    \/ health.parsing_errors > 0 /\ SuccessRatioLow

HealthClassification ==
    health.calls = 1 =>
        health.status = IF ClassifiedUnhealthy THEN "unhealthy"
                        ELSE IF ~health.serial_connected \/ SuccessRatioLow
                        THEN "degraded"
                        ELSE "healthy"

(***************************************************************************)
(* C19  Every uplink that carries a non-empty DevEui is stored in the      *)
(* DevEui index (and in the NodeId index when the DevEui is mapped),       *)
(* whatever other fields are missing or null; an uplink is discarded,      *)
(* leaving both indices unchanged, only when the DevEui is absent.         *)
(***************************************************************************)
IngestionResilient ==
    [][ (uplink' # NoUplink /\ callback' = None) =>
          LET msg == uplink'.msg[1]
          IN IF msg.dev_eui # None
             THEN LET d == msg.dev_eui[1]
                  IN /\ d \in DOMAIN cache'
                     /\ cache'[d].timestamp = uplink'.at[1]
                     /\ DevEuiToUwbId(d) # None =>
                          /\ DevEuiToUwbId(d)[1] \in DOMAIN uwb_cache'
                          /\ uwb_cache'[DevEuiToUwbId(d)[1]] = cache'[d]
             ELSE cache' = cache /\ uwb_cache' = uwb_cache
      ]_vars

(***************************************************************************)
(* C21  The first reset is permitted at once; after one or more recorded   *)
(* resets should_reset_with_backoff answers false until                    *)
(* min(initialBackoff * multiplier^resetCount, maxBackoff) seconds have    *)
(* passed since the last recorded reset and true from then on, so no reset *)
(* is held back for longer than maxBackoff.                                *)
(***************************************************************************)
SinceLastReset == now - recovery.last_reset_time[1]

EnforcedDelay ==
    LET grown == initial_backoff_seconds * Power(backoff_multiplier, recovery.reset_count)
    IN IF grown > max_backoff_seconds THEN max_backoff_seconds ELSE grown

BackoffContract ==
    /\ recovery.reset_count = 0 <=> recovery.last_reset_time = None
    /\ recovery.last.op = "should_reset_with_backoff" =>
         /\ recovery.reset_count = 0 => recovery.last.result
         /\ recovery.reset_count >= 1 =>
              /\ recovery.last.result <=> SinceLastReset >= EnforcedDelay
              /\ SinceLastReset >= max_backoff_seconds => recovery.last.result

BackoffWitness ==
    /\ recovery.last.op = "should_reset_with_backoff"
    /\ recovery.reset_count >= 6
    /\ SinceLastReset = max_backoff_seconds
    /\ recovery.last.result

(***************************************************************************)
(* C25  record_error(t) adds one to the counter of class t and to no other *)
(* counter, and asks for a reset exactly when that counter has reached the *)
(* threshold of class t.  As stated, every class has a threshold of its    *)
(* own, so the answer for one class does not depend on the threshold       *)
(* configured for another; in the program Parsing has its own threshold    *)
(* and Connection, Serial and Mqtt share the connection threshold.         *)
(***************************************************************************)
ErrorRecorded == recovery' # recovery /\ recovery'.last.op = "record_error"

OnlyItsCounter(t) ==
    /\ recovery'.error_counts[t] = recovery.error_counts[t] + 1
    /\ \A u \in ErrorTypes \ {t} : recovery'.error_counts[u] = recovery.error_counts[u]

\* the answer with the threshold of another class configured differently
AnswerWith(parsing_threshold, connection_threshold, t) ==
    record_error([recovery EXCEPT !.parsing_error_threshold = parsing_threshold,
                                  !.connection_error_threshold = connection_threshold],
                 t).last.result

ErrorClassesAsStated ==
    [][ ErrorRecorded =>
          LET t == recovery'.last.error_type
          IN /\ OnlyItsCounter(t)
             /\ t # "parsing" => \A p \in ErrorThresholds :
                    AnswerWith(p, recovery.connection_error_threshold, t)
                        = recovery'.last.result
             /\ t # "connection" => \A c \in ErrorThresholds :
                    AnswerWith(recovery.parsing_error_threshold, c, t)
                        = recovery'.last.result
      ]_vars

ErrorClasses ==
    [][ ErrorRecorded =>
          LET t == recovery'.last.error_type
              reached == recovery'.error_counts[t] >=
                            IF t = "parsing" THEN recovery.parsing_error_threshold
                            ELSE recovery.connection_error_threshold
          IN /\ OnlyItsCounter(t)
             /\ recovery'.last.result <=> reached
             /\ t # "parsing" => \A p \in ErrorThresholds :
                    AnswerWith(p, recovery.connection_error_threshold, t)
                        = recovery'.last.result
             /\ t = "parsing" => \A c \in ErrorThresholds :
                    AnswerWith(recovery.parsing_error_threshold, c, t)
                        = recovery'.last.result
      ]_vars

ErrorClassesWitness ==
    /\ recovery.last.op = "record_error"
    /\ recovery.last.error_type = "serial"
    /\ recovery.last.result
    /\ recovery.error_counts["serial"] = recovery.connection_error_threshold
    /\ recovery.error_counts["serial"] < recovery.parsing_error_threshold
    /\ recovery.error_counts["connection"] = 0

(***************************************************************************)
(* C26  As stated: after a reset is performed (record_reset, called when   *)
(* record_error has asked for a reset of some class), the counter of the   *)
(* class that triggered it is zero and the counters of all other classes   *)
(* have the values they had before the reset.                              *)
(***************************************************************************)
\* record_error has just answered that a reset is due, and the reset is recorded
ResetPerformed ==
    /\ recovery.last.op = "record_error" /\ recovery.last.result
    /\ recovery' # recovery /\ recovery'.last.op = "record_reset"

TriggeringCounterCleared ==
    [][ ResetPerformed =>
          LET t == recovery.last.error_type
          IN /\ recovery'.error_counts[t] = 0
             /\ \A u \in ErrorTypes \ {t} :
                   recovery'.error_counts[u] = recovery.error_counts[u]
      ]_vars

(***************************************************************************)
(* C22  When the MQTT library reports an error for a publish, the publish  *)
(* call returns normally, the failure is counted in the MQTT failure       *)
(* metric of the health monitor, the document is not published and not     *)
(* kept for a retry, and last_publish_time is left unchanged.              *)
(***************************************************************************)
PublishFailed == pub.pc = "sampled" /\ pub'.failures > pub.failures

PublishFailureCounted ==
    [][ PublishFailed =>
          /\ pub'.pc = "idle"
          /\ pub'.last_publish_time = pub.last_publish_time
          /\ pub'.count = pub.count
          /\ health'.mqtt_failures = health.mqtt_failures + 1
      ]_vars

(***************************************************************************)
(* C23  The handling of one Distance packet publishes at most one document *)
(* on the main topic, and a published document holds all the edges         *)
(* accepted from that packet and no other edge; a document whose attempt   *)
(* falls within the rate-limit interval is not published, then or later:   *)
(* nothing is published outside the handling of a packet, and what a later *)
(* packet publishes are the edges of that later packet.                    *)
(***************************************************************************)
PacketHandled == fr.pc = "payload" /\ fr' # fr

\* the edges listed in a published document
DocumentEdges(doc) ==
    IF args.cga_format
    THEN UNION {{doc.uwbs[i].edges[k] : k \in 1..Len(doc.uwbs[i].edges)} :
                  i \in 1..Len(doc.uwbs)}
    ELSE {doc[k] : k \in 1..Len(doc)}

AcceptedEdges(results) ==
    {FormatEdges(results)[k] : k \in 1..Len(results)}

\* publish_to_mqtt, called for the packet's document, returns
AttemptDecided == fr.pc = "publish" /\ fr'.pc # "publish"

\* the attempt, as publish_to_mqtt measured it, is within the interval
WithinInterval == Below(pub.time_since_last, pub.rate_sample)

OneDocumentPerPacket ==
    [][ /\ Len(sent') <= 1
        /\ fr'.pc = "publish" => PacketHandled \/ fr.pc = "publish"
        /\ PacketHandled => sent' = <<>>
        /\ ~PacketHandled /\ ~AttemptDecided => sent' = sent
        /\ AttemptDecided => pub.pc = "sampled" /\ fr'.pc = "scan"
        /\ AttemptDecided /\ sent' # <<>> =>
             /\ fr.last.kind = PACKET_TYPE_DISTANCE
             /\ fr.last.results # <<>>
             /\ DocumentEdges(sent'[1]) = AcceptedEdges(fr.last.results)
             /\ ~WithinInterval
             /\ pub'.last_publish_time = pub.current_time
        /\ AttemptDecided /\ WithinInterval =>
             /\ sent' = <<>>
             /\ pub'.last_publish_time = pub.last_publish_time
      ]_vars

\* a second packet's document went out after the first packet's was skipped
\* or sent, and it holds two edges
OneDocumentPerPacketWitness ==
    /\ Len(fr.emitted) = 3
    /\ fr.emitted[2] # fr.emitted[3]
    /\ pub.skipped = 1 /\ pub.count = 2
    /\ Len(sent) = 1
    /\ Cardinality(DocumentEdges(sent[1])) = 2

(***************************************************************************)
(* C24  After an interrupt the shutdown steps are taken in this order and  *)
(* each at most once: the LoRa cache is stopped (each of its two threads   *)
(* joined for at most 5 s), the outbound MQTT loop is stopped and the      *)
(* client disconnected, the serial port is closed, the process exits with  *)
(* code 0; the serial port is never closed before the cache stop has       *)
(* returned, and at exit every step of a configured part has been taken    *)
(* (the cache's own client is stopped and disconnected first, both or      *)
(* neither, and only if the cache's thread had made it).                   *)
(***************************************************************************)
ShutdownSteps ==
    <<"cache_loop_stop", "cache_disconnect", "join_thread", "join_cleanup",
      "cache_stopped", "mqtt_loop_stop", "mqtt_disconnect", "serial_close", "exit">>

StepRank(name) == CHOOSE r \in 1..Len(ShutdownSteps) : ShutdownSteps[r] = name

StepsTaken == {shutdown.steps[i] : i \in 1..Len(shutdown.steps)}

CacheClientSteps == {"cache_loop_stop", "cache_disconnect"}

StepsConfigured ==
    SelectSeq(ShutdownSteps, LAMBDA name :
        /\ name \in CacheClientSteps => name \in StepsTaken
        /\ StepRank(name) <= 5 => shutdown.lora_cache
        /\ name \in {"mqtt_loop_stop", "mqtt_disconnect"} => shutdown.mqtt_client)

ShutdownOrder ==
    /\ \A i, j \in 1..Len(shutdown.steps) :
         i < j => StepRank(shutdown.steps[i]) < StepRank(shutdown.steps[j])
    /\ \A i \in 1..Len(shutdown.join_waits) : shutdown.join_waits[i] <= 5
    /\ ("serial_close" \in StepsTaken /\ shutdown.lora_cache) =>
          "cache_stopped" \in StepsTaken
    /\ "exit" \in StepsTaken <=> shutdown.exit_code # None
    /\ StepsTaken \cap CacheClientSteps \in {{}, CacheClientSteps}
    /\ StepsTaken \cap CacheClientSteps # {} => shutdown.cache_client
    /\ shutdown.exit_code # None =>
          /\ shutdown.exit_code = Some(0)
          /\ shutdown.steps = StepsConfigured

\* a full shutdown in which the cleanup thread outlasted its join
ShutdownWitness ==
    /\ shutdown.exit_code = Some(0)
    /\ Len(shutdown.steps) = 9
    /\ shutdown.join_waits = <<1, 5>>
    /\ shutdown.cleanup_alive

(***************************************************************************)
(* C27  A truncated payload (fewer than 4 octets, an Assignment cut inside *)
(* its header or group data, a Distance payload too short for the values   *)
(* and new ids it must carry) emits no edges and adds exactly one to the   *)
(* parse-error counter; when that makes the counter reach the threshold    *)
(* the device is reset in the handling of that same packet.  In the        *)
(* program a Distance payload that ends with its four-octet preamble is    *)
(* the exception when no id of a newly assigned node is awaited: it is     *)
(* dropped without being counted.  When such an id is awaited (the last    *)
(* Assignment carried a zero id) it is counted like the others.            *)
(***************************************************************************)
PayloadRead ==
    SubSeq(stream, fr.pos + 1, fr.pos + Min(fr.l, arrived - fr.pos))

DistanceOctetsNeeded == 4 + 2 * TofCount(fr) + 2 * fr.unassigned_count

Truncated(payload) ==
    \/ Len(payload) < 4
    \/ /\ payload[1] = PACKET_TYPE_ASSIGNMENT
       /\ \/ Len(payload) < 9
          \/ Len(payload) < 9 + 2 * (payload[7] + payload[8] + payload[9])
    \/ /\ payload[1] = PACKET_TYPE_DISTANCE
       /\ Len(payload) < DistanceOctetsNeeded

\* a Distance payload of the preamble alone, no id of a newly assigned node
\* being awaited
PreambleOnly(payload) ==
    Len(payload) = 4 /\ payload[1] = PACKET_TYPE_DISTANCE /\ fr.unassigned_count = 0

NothingEmitted == fr'.emitted = fr.emitted /\ fr'.last.results = <<>>

\* one more error is counted, and at the threshold reset(ser) is entered
CountedOnce ==
    /\ fr'.parsing_error_count = fr.parsing_error_count + 1
    /\ fr'.resets = fr.resets
    /\ fr'.pc = "reset" <=> fr'.parsing_error_count >= MAX_PARSING_ERRORS
    /\ Len(reset_times') = Len(reset_times) + (IF fr'.pc = "reset" THEN 1 ELSE 0)

\* reset(ser) returns and the loop goes on
ResetEnds == fr.pc = "reset" /\ fr' # fr

\* the reset is made and the counter is at zero before anything else is read
ResetDone ==
    /\ fr'.resets = fr.resets + 1 /\ fr'.parsing_error_count = 0
    /\ fr'.pc = "scan" /\ fr'.s = <<>> /\ fr'.emitted = fr.emitted

TruncatedCountedAsStated ==
    [][ /\ PacketHandled /\ Truncated(PayloadRead) => NothingEmitted /\ CountedOnce
        /\ ResetEnds => ResetDone
      ]_vars

TruncatedCounted ==
    [][ /\ PacketHandled /\ Truncated(PayloadRead) =>
             /\ NothingEmitted
             /\ IF PreambleOnly(PayloadRead)
                THEN /\ fr'.parsing_error_count = fr.parsing_error_count
                     /\ fr'.resets = fr.resets /\ fr'.pc = "scan"
                ELSE CountedOnce
        /\ ResetEnds => ResetDone
      ]_vars

\* the third error in a row was a Distance payload of the preamble alone
\* under a held Assignment with a zero id, and the device was reset in its
\* handling
TruncatedCountedWitness ==
    /\ fr.last.kind = PACKET_TYPE_DISTANCE /\ fr.last.err
    /\ Len(fr.last.asg_before) = 3 /\ fr.l = 4 /\ fr.unassigned_count = 1
    /\ fr.last.count_before = MAX_PARSING_ERRORS - 1
    /\ fr.resets = 1 /\ fr.parsing_error_count = 0 /\ Len(reset_times) = 1

(***************************************************************************)
(* C28  The parser holds an Assignment (its three groups) exactly when the *)
(* last Assignment packet was parsed in full and no device reset has       *)
(* happened since: a whole Assignment replaces the held one by its three   *)
(* groups and records its mode, a truncated Assignment or a reset leaves   *)
(* none, nothing else changes whether one is held; and the edges of a      *)
(* Distance packet join node ids of the Assignment held at that time only. *)
(***************************************************************************)
Held(f) == Len(f.assignments) = 3

IsAssignment(payload) ==
    Len(payload) >= 4 /\ payload[1] = PACKET_TYPE_ASSIGNMENT

GroupsOf(payload) ==
    LET at(k) == U16At(payload, 9 + 2 * (k - 1))
        n1 == payload[7]
        n2 == payload[8]
        n3 == payload[9]
    IN << Tab(n1, LAMBDA i : at(i)), Tab(n2, LAMBDA i : at(n1 + i)),
          Tab(n3, LAMBDA i : at(n1 + n2 + i)) >>

IdsOf(assignments) ==
    UNION {{assignments[g][i] : i \in 1..Len(assignments[g])} : g \in 1..Len(assignments)}

AssignmentHeld ==
    [][ /\ Len(fr'.assignments) \in {0, 3}
        /\ ~PacketHandled /\ ~ResetEnds => fr'.assignments = fr.assignments
        /\ ResetEnds => ~Held(fr') /\ fr'.resets = fr.resets + 1
        /\ PacketHandled =>
             LET payload == PayloadRead
             IN /\ fr'.resets = fr.resets
                /\ Held(fr') <=>
                     IF IsAssignment(payload) THEN ~Truncated(payload)
                     ELSE Held(fr)
                /\ IsAssignment(payload) /\ Held(fr') =>
                     /\ fr'.assignments = GroupsOf(payload)
                     /\ fr'.mode = payload[6]
                /\ fr'.last.results # <<>> =>
                     /\ Held(fr) /\ Held(fr')
                     /\ \A k \in 1..Len(fr'.last.results) :
                          /\ fr'.last.results[k][1] \in IdsOf(fr'.assignments)
                          /\ fr'.last.results[k][2] \in IdsOf(fr'.assignments)
      ]_vars

\* after a reset that discarded a held Assignment, a whole Distance packet
\* was handled and gave no edge
AssignmentHeldWitness ==
    /\ fr.resets = 1 /\ fr.emitted = <<>>
    /\ fr.last.kind = PACKET_TYPE_DISTANCE /\ fr.last.err
    /\ fr.last.asg_before = <<>>
    /\ fr.g1 = 1 /\ fr.g3 = 1
    /\ fr.pos = Len(stream) /\ Len(stream) > 40

(***************************************************************************)
(* C29  Input that is neither an Assignment nor a Distance packet moves    *)
(* the read position and nothing else: when the four buffered octets do    *)
(* not begin with DC AC, exactly the leading octet is discarded and the    *)
(* rest is examined again; a framed payload with a whole preamble and any  *)
(* other actType is consumed whole.  In both cases no edge is emitted, the *)
(* Assignment, the mode and the group sizes stay, and the parse-error      *)
(* counter is not incremented.                                             *)
(***************************************************************************)
BufferRead == Append(fr.s, stream[fr.pos + 1])

Resynced ==
    /\ fr.pc = "scan" /\ fr' # fr /\ Len(fr.s) = 3
    /\ ~(BufferRead[1] = PACKET_HEADER_BYTE_1 /\ BufferRead[2] = PACKET_HEADER_BYTE_2)

OtherTypeHandled ==
    /\ PacketHandled /\ Len(PayloadRead) >= 4
    /\ PayloadRead[1] \notin {PACKET_TYPE_ASSIGNMENT, PACKET_TYPE_DISTANCE}

ParserStateKept ==
    /\ fr'.emitted = fr.emitted /\ network' = network
    /\ fr'.assignments = fr.assignments /\ fr'.mode = fr.mode
    /\ fr'.g1 = fr.g1 /\ fr'.g2 = fr.g2 /\ fr'.g3 = fr.g3
    /\ fr'.unassigned_count = fr.unassigned_count
    /\ fr'.parsing_error_count = fr.parsing_error_count
    /\ fr'.resets = fr.resets /\ reset_times' = reset_times

SkippedInputChangesNothing ==
    [][ /\ Resynced =>
             /\ fr'.s = Tail(BufferRead) /\ fr'.pos = fr.pos + 1
             /\ fr'.pc = "scan"
             /\ ParserStateKept
        /\ OtherTypeHandled =>
             /\ fr'.s = <<>> /\ fr'.pos = fr.pos + fr.l
             /\ fr'.pc = "scan"
             /\ fr'.last.results = <<>> /\ ~fr'.last.err
             /\ ParserStateKept
      ]_vars

\* a stray octet ahead of the first frame was dropped, an Assignment is held
\* and a payload of type 9 has just been consumed
SkippedInputWitness ==
    /\ Len(stream) > 0 /\ stream[1] = 7 /\ fr.pos = Len(stream)
    /\ fr.last.kind = 9 /\ ~fr.last.err
    /\ Len(fr.assignments) = 3
    /\ fr.s = <<>> /\ fr.parsing_error_count = 0

(***************************************************************************)
(* C30  Under a held Assignment with group sizes g1, g2, g3 and mode m, a  *)
(* Distance payload is read as exactly                                     *)
(*   tofCount = g1*g2 + g1*g3 + g2*g3 + (m&1 ? g1(g1-1)/2 : 0)             *)
(*                                     + (m&2 ? g2(g2-1)/2 : 0)            *)
(* consecutive u16 values; the k-th value belongs to the k-th node pair of *)
(* the enumeration G1xG2, G1xG3, G2xG3, then the pairs i < j of G1 if m&1, *)
(* then the pairs i < j of G2 if m&2, the outer index slowest; the edges   *)
(* emitted keep that order.                                                *)
(***************************************************************************)
\* place of the pair (i, j) in a block, counted from 1
PlaceInProduct(i, j, nB) == (i - 1) * nB + j
PlaceInTriangle(i, j, n) == (i - 1) * n - (i * (i - 1)) \div 2 + (j - i)

ProductBlock(A, B) ==
    [k \in 1..(Len(A) * Len(B)) |->
        LET p == CHOOSE p \in (1..Len(A)) \X (1..Len(B)) :
                    PlaceInProduct(p[1], p[2], Len(B)) = k
        IN <<A[p[1]], B[p[2]]>>]

TriangleBlock(A, wanted) ==
    IF ~wanted THEN <<>>
    ELSE [k \in 1..((Len(A) * (Len(A) - 1)) \div 2) |->
            LET p == CHOOSE p \in {q \in (1..Len(A)) \X (1..Len(A)) : q[1] < q[2]} :
                        PlaceInTriangle(p[1], p[2], Len(A)) = k
            IN <<A[p[1]], A[p[2]]>>]

FixedEnumeration(G, m) ==
    ProductBlock(G[1], G[2]) \o ProductBlock(G[1], G[3]) \o ProductBlock(G[2], G[3])
    \o TriangleBlock(G[1], (m \div 1) % 2 = 1)
    \o TriangleBlock(G[2], (m \div 2) % 2 = 1)

tofCount ==
    fr.g1 * fr.g2 + fr.g1 * fr.g3 + fr.g2 * fr.g3
    + (IF fr.mode % 2 = 1 THEN (fr.g1 * (fr.g1 - 1)) \div 2 ELSE 0)
    + (IF (fr.mode \div 2) % 2 = 1 THEN (fr.g2 * (fr.g2 - 1)) \div 2 ELSE 0)

DistanceDecoded ==
    /\ PacketHandled /\ Len(PayloadRead) >= 4
    /\ PayloadRead[1] = PACKET_TYPE_DISTANCE
    /\ Len(fr.assignments) = 3 /\ fr.unassigned_count = 0
    /\ Len(PayloadRead) >= 4 + 2 * tofCount

DistancePairing ==
    [][ DistanceDecoded =>
          LET payload == PayloadRead
              pairs == FixedEnumeration(fr.assignments, fr.mode)
              value(k) == payload[4 + 2 * k - 1] + 256 * payload[4 + 2 * k]
              kept == SelectSeq([k \in 1..tofCount |-> k],
                                LAMBDA k : twr_value_ok(value(k)))
          IN /\ Len(pairs) = tofCount
             /\ fr'.last.twrs = [k \in 1..tofCount |-> value(k)]
             /\ fr'.last.results =
                  [n \in 1..Len(kept) |->
                     <<pairs[kept[n]][1], pairs[kept[n]][2],
                       Micrometres(value(kept[n]))>>]
             /\ ~fr'.last.err
      ]_vars

\* ten values were paired in mode 3 with groups of two, two and one node
DistancePairingWitness ==
    /\ fr.last.kind = PACKET_TYPE_DISTANCE /\ ~fr.last.err
    /\ fr.mode = 3 /\ fr.g1 = 2 /\ fr.g2 = 2 /\ fr.g3 = 1
    /\ Len(fr.last.twrs) = 10 /\ Len(fr.last.results) = 9
    /\ fr.last.results[9][1] = fr.assignments[2][1]
    /\ fr.last.results[9][2] = fr.assignments[2][2]

(***************************************************************************)
(* Properties of convert_edges_to_network                                  *)
(***************************************************************************)
\* the passes of the last call that has returned a Network: mat.uwbs[i] is
\* the node of pass i and mat.looked[i] the lookup made for it
Returned == IF mat.pc = "returned" THEN 1..Len(mat.uwbs) ELSE {}

\* the cache held a record for the id that was not expired when get_by_uwb_id
\* was called for it
FreshRecord(seen) ==
    seen.held # None /\ ~ExpiredUnder(seen.held[1], None, TRUE, seen.at)

\* the cache returns a non-expired record with latitude and longitude for the id
FreshPosition(seen) == FreshRecord(seen) /\ CarriesLatLon(seen.held[1])

\* C31 as stated: every node of a returned Network is resolved in this order:
\* in the anchor map, positionKnown with the anchor's coordinates and a
\* positionSource that starts with anchor_config; else, if the cache returns a
\* non-expired record with latitude and longitude, positionKnown with the
\* record's coordinates and lastPositionUpdateTime the record's timestamp;
\* else positionKnown false and latLonAlt (0, 0, 0).  The cache is asked once
\* for each node, ingestion, eviction and the clock running between the nodes.
ResolutionOrder ==
    \A i \in Returned :
        LET u == mat.uwbs[i]
            seen == mat.looked[i]
        IN /\ seen.id = u.id
           /\ IF u.id \in AnchorIds
              THEN /\ u.positionKnown /\ u.latLonAlt = AnchorPosition(u.id)
                   /\ u.positionSource # None /\ u.positionSource[1][1] = "anchor_config"
              ELSE IF FreshPosition(seen)
              THEN /\ u.positionKnown
                   /\ u.latLonAlt = <<seen.held[1].location.latitude,
                                      seen.held[1].location.longitude,
                                      seen.held[1].location.altitude>>
                   /\ u.lastPositionUpdateTime = seen.held[1].timestamp
              ELSE ~u.positionKnown /\ u.latLonAlt = <<Some(0), Some(0), Some(0)>>

\* pass i was for an anchor of which the cache held a fresh record
AnchorWithFreshRecord(i) ==
    mat.uwbs[i].id \in AnchorIds /\ FreshRecord(mat.looked[i])

\* the anchor's position and the telemetry of the record
AnchorAndTelemetry(u, data) ==
    /\ u.positionKnown /\ u.latLonAlt = AnchorPosition(u.id)
    /\ u.battery = Some(data.decoded_payload.battery)
    /\ u.loraDataTimestamp = Some(data.timestamp)

\* positionSource anchor_config,lora_<source> and the accuracy of the location
BothSources(u, data) ==
    /\ Get(data.location, "source") # None
    /\ u.positionSource = Some(<<"anchor_config", ",lora_", data.location.source[1]>>)
    /\ u.positionAccuracy = data.location.accuracy[1]

\* C32 as stated: a node that is in the anchor map and also has a fresh LoRa
\* record keeps the anchor's latLonAlt, carries the telemetry of the record
\* (battery, loraDataTimestamp, positionAccuracy) and has positionSource
\* anchor_config,lora_<source>.
AnchorKeepsPositionAsStated ==
    \A i \in Returned :
        AnchorWithFreshRecord(i) =>
            /\ AnchorAndTelemetry(mat.uwbs[i], mat.looked[i].held[1])
            /\ BothSources(mat.uwbs[i], mat.looked[i].held[1])

\* C32 amended: such a node keeps the anchor's latLonAlt and carries the
\* telemetry of the record; its positionSource is anchor_config,lora_<source>
\* when the record has a location (the cache gives every location a source),
\* and anchor_config when the record has none.
AnchorKeepsPosition ==
    \A i \in Returned :
        AnchorWithFreshRecord(i) =>
            LET u == mat.uwbs[i]
                data == mat.looked[i].held[1]
            IN /\ AnchorAndTelemetry(u, data)
               /\ IF data.location.present
                  THEN BothSources(u, data)
                  ELSE u.positionSource = Some(<<"anchor_config">>)

\* the anchor B98A returned with its own position next to a record that
\* carries other coordinates, a record that arrived while the call was running
AnchorKeepsPositionWitness ==
    \E i \in Returned :
        /\ AnchorWithFreshRecord(i) /\ mat.uwbs[i].id = NodeB
        /\ HasGps(mat.looked[i].held[1])
        /\ mat.looked[i].held[1].timestamp > mat.passed
        /\ mat.uwbs[i].latLonAlt # <<mat.looked[i].held[1].location.latitude,
                                     mat.looked[i].held[1].location.longitude,
                                     mat.looked[i].held[1].location.altitude>>
        /\ mat.uwbs[i].positionSource = Some(<<"anchor_config", ",lora_", "frm-payload">>)
        /\ mat.uwbs[i].battery = Some(85)

\* validate_gps_coordinates refuses the coordinates of the record: latitude
\* outside [-90, 90] or longitude outside [-180, 180], or (0, 0) with
\* reject_zero_gps
Refused(dv, data) ==
    /\ CarriesLatLon(data)
    /\ ~validate_gps_coordinates(dv, data.location.latitude[1],
                                 data.location.longitude[1]).is_valid

\* the call has ended: a Network was returned or an exception left it
CallEnded == mat.pc \in {"returned", "raised"}

\* the ids of the last call whose cached record, fresh when the call asked
\* for it, the attached validator refuses
RefusedIds ==
    {mat.looked[i].id : i \in {j \in 1..Len(mat.looked) :
        /\ mat.looked[j].id \notin AnchorIds
        /\ mat.data_validator # None
        /\ FreshRecord(mat.looked[j])
        /\ Refused([mat.data_validator[1] EXCEPT !.gps_rejected = 0],
                   mat.looked[j].held[1])}}

\* C33 as stated: with a DataValidator attached, a call in which the cached
\* GPS coordinates of a node outside the anchor map are refused still returns
\* a Network; in it that node has positionKnown false and latLonAlt (0, 0, 0),
\* and every node of the edge list is there with its edges.
RefusedGpsStillMaterialised ==
    (CallEnded /\ RefusedIds # {}) =>
        /\ mat.pc = "returned"
        /\ {mat.uwbs[i].id : i \in Returned} = EdgeIds(mat.edge_list)
        /\ \A i \in Returned :
             /\ mat.uwbs[i].id \in RefusedIds =>
                  /\ ~mat.uwbs[i].positionKnown
                  /\ mat.uwbs[i].latLonAlt = <<Some(0), Some(0), Some(0)>>
             /\ mat.uwbs[i].edges = EdgesOf(mat.uwbs[i].id, mat.edge_list)

\* the node took its position from a LoRa record
PositionFromLora(u) == u.positionKnown /\ u.id \notin AnchorIds

\* C35 as stated: in a returned Network a node that takes no position from a
\* LoRa record has lastPositionUpdateTime equal to the timestamp passed to the
\* call, whatever the other nodes of the edge list are.
OwnUpdateTime ==
    \A i \in Returned :
        ~PositionFromLora(mat.uwbs[i]) => mat.uwbs[i].lastPositionUpdateTime = mat.passed

(***************************************************************************)
(* Threads of the LoRa cache                                               *)
(***************************************************************************)
\* C34 as stated: under any sequence of start() and stop() calls at most one
\* ingestion thread and at most one eviction thread are alive at any time (so
\* no eviction thread of an earlier run is left beside the one a later
\* start() creates).
OneThreadOfEachKind ==
    /\ Cardinality(Alive(lifecycle.run)) <= 1
    /\ Cardinality(Alive(lifecycle.cleanup)) <= 1

(***************************************************************************)
(* C36  The parse-error counter is at most MAX_PARSING_ERRORS - 1 whenever *)
(* the loop starts on a packet: a packet whose handling raises a parsing   *)
(* error adds exactly one to it, and when that reaches the threshold the   *)
(* device reset of the same handling sets it to zero; nothing else changes *)
(* it.                                                                     *)
(***************************************************************************)
ErrorRaised == fr'.last.err

ErrorCounterBounded ==
    [][ /\ fr'.pc # "reset" => fr'.parsing_error_count <= MAX_PARSING_ERRORS - 1
        /\ fr'.pc = "reset" => fr'.parsing_error_count = MAX_PARSING_ERRORS
        /\ PacketHandled /\ ErrorRaised => CountedOnce
        /\ ResetEnds => ResetDone
        /\ ~(PacketHandled /\ ErrorRaised) /\ ~ResetEnds =>
             /\ fr'.parsing_error_count = fr.parsing_error_count
             /\ fr'.resets = fr.resets
      ]_vars

\* a faulty packet after the reset that the third faulty packet brought: the
\* counter is at one again
ErrorCounterWitness ==
    /\ fr.pc = "scan" /\ fr.last.err
    /\ fr.resets = 1 /\ fr.last.count_before = 0 /\ fr.parsing_error_count = 1

(***************************************************************************)
(* C37  Whenever an Assignment is held, its three groups have g1, g2 and   *)
(* g3 elements, the counts the Distance branch computes tofCount and the   *)
(* sentinel offset from: unassigned_count is at most g3, so the slots a    *)
(* Distance packet writes are inside G3, tofCount is the number of TWR     *)
(* values parse_final reads, and the resolving ids are the octets right    *)
(* after those values.                                                     *)
(***************************************************************************)
\* the TWR values parse_final reads for the held Assignment
ValuesRead(f) == Len(PairList(f.assignments, f.mode))

CountsAgree(f) ==
    /\ Len(f.assignments[1]) = f.g1
    /\ Len(f.assignments[2]) = f.g2
    /\ Len(f.assignments[3]) = f.g3
    /\ f.unassigned_count <= f.g3
    /\ TofCount(f) = ValuesRead(f)

HeldGroupsMatchCounts ==
    [][ /\ Held(fr') => CountsAgree(fr')
        /\ (/\ PacketHandled /\ Held(fr)
            /\ Len(PayloadRead) >= 4 /\ PayloadRead[1] = PACKET_TYPE_DISTANCE
            /\ ~fr'.last.err) =>
              /\ Len(fr'.last.new_ids) = fr.unassigned_count
              /\ \A i \in 1..fr.unassigned_count :
                   /\ fr.g3 - fr.unassigned_count + i \in 1..Len(fr.assignments[3])
                   /\ fr'.last.new_ids[i] =
                        U16At(PayloadRead, 4 + 2 * ValuesRead(fr) + 2 * (i - 1))
                   /\ fr'.assignments[3][fr.g3 - fr.unassigned_count + i]
                        = fr'.last.new_ids[i]
      ]_vars

\* a Distance packet resolved the sentinel in the second slot of the held G3
HeldGroupsWitness ==
    /\ fr.last.kind = PACKET_TYPE_DISTANCE /\ ~fr.last.err
    /\ Held(fr) /\ fr.unassigned_count = 1 /\ fr.g3 = 2
    /\ Len(fr.last.new_ids) = 1
    /\ fr.assignments[3][2] = fr.last.new_ids[1]

\* C38: in every reachable state of a HealthMonitor failed_packets equals
\* parsing_errors, so a success rate below 0.8 comes with a parsing error and
\* get_health_status answers "degraded" only while the serial line is disconnected
DegradedOnlyWithoutSerial ==
    /\ health.failed_packets = health.parsing_errors
    /\ SuccessRateBelow80(health) => health.parsing_errors > 0
    /\ health_status(health, now) = "degraded" => ~health.serial_connected
\* get_health_status has answered "unhealthy" for a connected monitor whose only
\* fault is a success rate below 0.8
DegradedOnlyWithoutSerialWitness ==
    /\ health.status = "unhealthy" /\ health.status = health_status(health, now)
    /\ health.serial_connected /\ SuccessRateBelow80(health)
    /\ mqtt_connection_ok(health, now) /\ uwb_data_recent(health, now)
    /\ health.consecutive_errors < CONSECUTIVE_ERRORS_UNHEALTHY
    /\ health.successful_packets > 0

\* the step is a call of get_by_uwb_id or get_by_dev_eui: it leaves a new answer
LookupAnswered ==
    /\ lookup'.by # "none"
    /\ ~(/\ lookup'.by = lookup.by /\ lookup'.key = lookup.key /\ lookup'.at = lookup.at
         /\ lookup'.max_age = lookup.max_age /\ lookup'.check = lookup.check
         /\ lookup'.result = lookup.result)
\* C39: a record returned by get_by_uwb_id or get_by_dev_eui is never modified
\* afterwards by the cache: no dictionary changes once _on_message has stored it
\* (ingestion makes both index entries refer to a new one), a lookup changes
\* neither index, and so the record a reader holds stays as it was returned
\* whatever ingestion and eviction do meanwhile
ReturnedRecordNeverModified ==
    [][ /\ \A i \in 1..Len(reader.objects) : reader'.objects[i] = reader.objects[i]
        /\ reader'.held # None => reader'.objects[reader'.held[1]] = reader'.seen[1]
        /\ LookupAnswered =>
             /\ cache' = cache /\ uwb_cache' = uwb_cache
             /\ reader'.cache_ref = reader.cache_ref /\ reader'.uwb_ref = reader.uwb_ref
        /\ Deref(reader'.objects, reader'.cache_ref) = cache'
        /\ Deref(reader'.objects, reader'.uwb_ref) = uwb_cache' ]_vars
\* the reader still holds a record of a device whose entry ingestion has
\* replaced by a record with other content since
ReturnedRecordWitness ==
    /\ reader.held # None
    /\ LET d == reader.seen[1].dev_eui
       IN /\ d \in DOMAIN reader.cache_ref
          /\ reader.cache_ref[d] # reader.held[1]
          /\ cache[d] # reader.seen[1]
\* the reader still holds a record that eviction has removed from both indices
ReturnedRecordEvictedWitness ==
    /\ reader.held # None /\ sweep.removed
    /\ reader.seen[1].dev_eui \notin DOMAIN cache
    /\ \A id \in DOMAIN reader.uwb_ref : reader.uwb_ref[id] # reader.held[1]

\* the delay should_reset_with_backoff enforces after n recorded resets with
\* multiplier m, as a caller sees it: the number of seconds after the last
\* recorded reset at which its answer turns from false to true
EnforcedAfter ==
    [m \in 1..MaxMultiplier, n \in 1..MaxResets |->
        LET r == [NewErrorRecovery(MAX_PARSING_ERRORS, connection_error_threshold)
                     EXCEPT !.backoff_multiplier = m, !.reset_count = n,
                            !.last_reset_time = Some(StartTime)]
        IN CHOOSE d \in 0..max_backoff_seconds :
              /\ should_reset_with_backoff(r, StartTime + d)
              /\ d > 0 => ~should_reset_with_backoff(r, StartTime + d - 1)]

\* none before the first reset
HeldBackFor(r) ==
    IF r.last_reset_time = None THEN 0
    ELSE EnforcedAfter[r.backoff_multiplier, r.reset_count]

\* C40: reset_count of an ErrorRecovery never decreases, whatever operation runs
\* (reset_error_counts after successful packets and record_error past the
\* threshold included), so with a multiplier of 1 or more the delay
\* should_reset_with_backoff enforces never gets shorter; and once a reset was
\* recorded, current_backoff_seconds of get_stats is that enforced delay
BackoffNeverShrinks ==
    [][ /\ get_stats(recovery').reset_count >= get_stats(recovery).reset_count
        /\ recovery'.last.op # "record_reset" =>
              get_stats(recovery').reset_count = get_stats(recovery).reset_count
        /\ HeldBackFor(recovery') >= HeldBackFor(recovery)
        /\ recovery'.reset_count >= 1 =>
             /\ recovery'.last_reset_time # None
             /\ get_stats(recovery').current_backoff_seconds = HeldBackFor(recovery')
             /\ should_reset_with_backoff(recovery', now')
                  <=> now' - recovery'.last_reset_time[1]
                        >= get_stats(recovery').current_backoff_seconds ]_vars
\* resets were recorded, reset_error_counts has just cleared the counters, and
\* the grown delay still holds the next reset back
BackoffNeverShrinksWitness ==
    /\ recovery.reset_count >= 2
    /\ recovery.last.op = "reset_error_counts"
    /\ recovery.backoff_multiplier = MaxMultiplier
    /\ recovery.current_backoff_seconds > initial_backoff_seconds
    /\ recovery.current_backoff_seconds < max_backoff_seconds
    /\ ~should_reset_with_backoff(recovery, now)

====
